---- MODULE Spec2Model ----
(***************************************************************************)
(* The experiment engine of iter8 (base/experiment.go): RunExperiment,     *)
(* BuildExperiment, Experiment.run and the helpers they call, run against  *)
(* a driver that keeps the last artifact written to it.                    *)
(***************************************************************************)
EXTENDS Integers, Sequences, FiniteSets, TLC

\* ---------------------------------------------------------------- bounds
MaxTasks == 2
MaxLoops == 2
MaxRevision == 1
MaxVersions == 1

\* A nil pointer (nil *ExperimentResult, nil *Insights, nil *Experiment).
Nil == [nil |-> TRUE]

\* The `if` of a task, as getIf and expr see it: no condition, a condition
\* that does not compile, a condition that compiles.
IfKinds == {"none", "bad", "ok"}

\* The errors RunExperiment can return ("nil" is a nil error, "none" is
\* an invocation that has not returned).
Errors == {"read", "nilresult", "write", "compile", "eval", "task"}

VARIABLES
    driver,     \* the Driver: the artifact it stores and its revision
    exp,        \* the *Experiment of the current (or last) invocation
    pc,         \* position of the invocation inside RunExperiment / run
    i,          \* 1-based index of the task of the `for i, t := range exp.Spec`
    ret,        \* what the last invocation returned
    log         \* what the current invocation did, in order

vars == <<driver, exp, pc, i, ret, log>>

\* ------------------------------------------------------- pure helpers

\* initResults that does not stamp the revision of the driver.
initResults_NoRevision(revision) ==
    [Revision |-> 0, NumLoops |-> 0, NumCompletedTasks |-> 0,
     Failure |-> FALSE, Insights |-> Nil]

\* Experiment.initResults
initResults(revision) ==
    [Revision |-> revision, NumLoops |-> 0, NumCompletedTasks |-> 0,
     Failure |-> FALSE, Insights |-> Nil]

\* incrementNumLoops that leaves the loop counter alone.
incrementNumLoops_Stuck(r) == r

\* incrementNumLoops that does not count a loop on a failed result.
incrementNumLoops_UnlessFailed(r) ==
    IF r.Failure THEN r ELSE [r EXCEPT !.NumLoops = @ + 1]

\* Experiment.incrementNumLoops
incrementNumLoops(r) == [r EXCEPT !.NumLoops = @ + 1]

\* incrementNumCompletedTasks that leaves the counter alone.
incrementNumCompletedTasks_Noop(r) == r

\* Experiment.incrementNumCompletedTasks
incrementNumCompletedTasks(r) == [r EXCEPT !.NumCompletedTasks = @ + 1]

\* failExperiment that leaves the failure flag alone.
failExperiment_Noop(r) == r

\* Experiment.failExperiment
failExperiment(r) == [r EXCEPT !.Failure = TRUE]

\* A non-nil slice or map header around its contents (a nil one is Nil).
Some(x) == [v |-> x]

\* len() of a slice that may be nil.
SliceLen(x) == IF x = Nil THEN 0 ELSE Len(x.v)

\* A Go map with no key.
EmptyMap == <<>>

\* &Insights{NumVersions: n}
NewInsights(n) ==
    [NumVersions |-> n, MetricsInfo |-> EmptyMap,
     NonHistMetricValues |-> Nil, HistMetricValues |-> Nil,
     SLOs |-> Nil, SLOsSatisfied |-> Nil]

\* initMetrics that allocates both value stores with no version slots.
initMetrics_Unsized(in) ==
    IF in.NonHistMetricValues # Nil \/ in.HistMetricValues # Nil
    THEN [in |-> in, err |-> "nil"]
    ELSE [in |-> [in EXCEPT
                    !.MetricsInfo = EmptyMap,
                    !.NonHistMetricValues = Some(<<>>),
                    !.HistMetricValues = Some(<<>>)],
          err |-> "nil"]

\* Insights.initMetrics: the insights and what the call returns ("nil",
\* "error", or "panic" for an index out of range).
initMetrics(in) ==
    IF in.NonHistMetricValues # Nil \/ in.HistMetricValues # Nil
    THEN IF \/ SliceLen(in.NonHistMetricValues) # in.NumVersions
            \/ SliceLen(in.HistMetricValues) # in.NumVersions
         THEN [in |-> in, err |-> "error"]
         ELSE IF SliceLen(in.NonHistMetricValues) = 0
                 \/ SliceLen(in.HistMetricValues) = 0
         THEN [in |-> in, err |-> "panic"]
         ELSE IF Cardinality(DOMAIN in.NonHistMetricValues.v[1])
                 + Cardinality(DOMAIN in.HistMetricValues.v[1])
                 # Cardinality(DOMAIN in.MetricsInfo)
         THEN [in |-> in, err |-> "error"]
         ELSE [in |-> in, err |-> "nil"]
    ELSE [in |-> [in EXCEPT
                    !.MetricsInfo = EmptyMap,
                    !.NonHistMetricValues = Some([k \in 1..in.NumVersions |-> EmptyMap]),
                    !.HistMetricValues = Some([k \in 1..in.NumVersions |-> EmptyMap])],
          err |-> "nil"]

\* initInsightsWithNumVersions that takes the new number of versions when it
\* differs from the old one.
initInsightsWithNumVersions_Overwrite(r, n) ==
    LET in == IF r.Insights # Nil THEN [r.Insights EXCEPT !.NumVersions = n]
                                  ELSE NewInsights(n)
        im == initMetrics(in)
    IN  [r |-> [r EXCEPT !.Insights = im.in], err |-> FALSE,
         panic |-> im.err = "panic"]

\* ExperimentResult.initInsightsWithNumVersions: the result, whether an
\* error is returned and whether the call panics. The error of initMetrics
\* is dropped.
initInsightsWithNumVersions(r, n) ==
    IF r.Insights # Nil /\ r.Insights.NumVersions # n
    THEN [r |-> r, err |-> TRUE, panic |-> FALSE]
    ELSE LET in == IF r.Insights # Nil THEN r.Insights ELSE NewInsights(n)
             im == initMetrics(in)
         IN  [r |-> [r EXCEPT !.Insights = im.in], err |-> FALSE,
              panic |-> im.err = "panic"]

\* Experiment.Completed
Completed(e) ==
    /\ e # Nil
    /\ e.Result # Nil
    /\ e.Result.NumCompletedTasks = Len(e.Spec)

\* Experiment.NoFailure
NoFailure(e) == e # Nil /\ e.Result # Nil /\ ~e.Result.Failure

\* An entry of the log.
Ev(ev, k, ok, res) == [ev |-> ev, i |-> k, ok |-> ok, res |-> res]

\* ---------------------------------------------------------------- Init

TaskSet == [If : IfKinds]

SpecSet == UNION {[1..n -> TaskSet] : n \in 0..MaxTasks}

Init ==
    /\ driver \in {[exp |-> [Spec |-> s, Result |-> Nil], revision |-> v] :
                      s \in SpecSet, v \in 0..MaxRevision}
    /\ exp = Nil
    /\ pc = "idle"
    /\ i = 0
    /\ ret = "none"
    /\ log = <<>>

\* ------------------------------------------------- steps of the engine

\* Driver.Read as BuildExperiment sees it: the stored experiment, or an error.
BuildExperiment(d, readOk) ==
    IF readOk THEN [e |-> d.exp, err |-> "nil"] ELSE [e |-> Nil, err |-> "read"]

\* A Driver.Write that reports success and stores nothing.
Write_Dropped(d, e) == d

\* Driver.Write that succeeds: the driver stores the experiment it is given.
Write(d, e) == [d EXCEPT !.exp = e]

\* RunExperiment with the reuse test inverted.
reuseOrInit_Inverted(reuseResult, e, revision) ==
    IF reuseResult THEN [e EXCEPT !.Result = initResults(revision)] ELSE e

\* RunExperiment: `if !reuseResult { exp.initResults(driver.GetRevision()) }`
reuseOrInit(reuseResult, e, revision) ==
    IF ~reuseResult THEN [e EXCEPT !.Result = initResults(revision)] ELSE e

\* Task.run: a task may allocate the insights for n versions and may fail.
TaskRun(r, touches, n, fails) ==
    LET a == IF touches THEN initInsightsWithNumVersions(r, n)
                        ELSE [r |-> r, err |-> FALSE]
    IN  [r |-> a.r, err |-> a.err \/ fails]

\* evalIf with a false condition that skips the count of the task as well.
evalIf_SkipUncounted(cond, out) ==
    CASE cond = "none" ->
           [pc |-> "exec", ret |-> "none", ev |-> "start", ok |-> TRUE]
      [] cond = "bad" ->
           [pc |-> "idle", ret |-> "compile", ev |-> "if", ok |-> FALSE]
      [] cond = "ok" /\ out = "error" ->
           [pc |-> "idle", ret |-> "eval", ev |-> "if", ok |-> FALSE]
      [] cond = "ok" /\ out = "true" ->
           [pc |-> "exec", ret |-> "none", ev |-> "if", ok |-> TRUE]
      [] cond = "ok" /\ out = "false" ->
           [pc |-> "writeTask", ret |-> "none", ev |-> "skip", ok |-> TRUE]

\* evalIf with a predicate error taken for a false condition.
evalIf_ErrorSkips(cond, out) ==
    CASE cond = "none" ->
           [pc |-> "exec", ret |-> "none", ev |-> "start", ok |-> TRUE]
      [] cond = "bad" ->
           [pc |-> "count", ret |-> "none", ev |-> "if", ok |-> FALSE]
      [] cond = "ok" /\ out = "error" ->
           [pc |-> "count", ret |-> "none", ev |-> "if", ok |-> FALSE]
      [] cond = "ok" /\ out = "true" ->
           [pc |-> "exec", ret |-> "none", ev |-> "if", ok |-> TRUE]
      [] cond = "ok" /\ out = "false" ->
           [pc |-> "count", ret |-> "none", ev |-> "skip", ok |-> TRUE]

\* Experiment.run, the `if` of a task: where the engine goes next, what it
\* returns, and the entry of the log. cond is what getIf gives, out is what
\* expr.Run gives for a condition that compiles.
evalIf(cond, out) ==
    CASE cond = "none" ->
           [pc |-> "exec", ret |-> "none", ev |-> "start", ok |-> TRUE]
      [] cond = "bad" ->
           [pc |-> "idle", ret |-> "compile", ev |-> "if", ok |-> FALSE]
      [] cond = "ok" /\ out = "error" ->
           [pc |-> "idle", ret |-> "eval", ev |-> "if", ok |-> FALSE]
      [] cond = "ok" /\ out = "true" ->
           [pc |-> "exec", ret |-> "none", ev |-> "if", ok |-> TRUE]
      [] cond = "ok" /\ out = "false" ->
           [pc |-> "count", ret |-> "none", ev |-> "skip", ok |-> TRUE]

\* afterRun that returns the task's error without persisting the failure.
afterRun_NoPersist(err) ==
    IF err THEN [pc |-> "idle", ret |-> "task"]
           ELSE [pc |-> "count", ret |-> "none"]

\* Experiment.run, after t.run(exp): on an error the failure is persisted,
\* otherwise the task is counted.
afterRun(err) ==
    IF err THEN [pc |-> "writeFailure", ret |-> "none"]
           ELSE [pc |-> "count", ret |-> "none"]

\* afterWriteLoop that enters the loop whatever the write returned.
afterWriteLoop_IgnoreError(ok) == [pc |-> "loop", i |-> 1, ret |-> "none"]

\* Experiment.run, after the driver.Write that follows incrementNumLoops:
\* the first task, or the write's error.
afterWriteLoop(ok) ==
    IF ok THEN [pc |-> "loop", i |-> 1, ret |-> "none"]
          ELSE [pc |-> "idle", i |-> 0, ret |-> "write"]

\* afterWriteTask that goes on to the next task whatever the write returned.
afterWriteTask_IgnoreError(ok, k) == [pc |-> "loop", i |-> k + 1, ret |-> "none"]

\* Experiment.run, after the driver.Write that follows a counted task:
\* the next task, or the write's error.
afterWriteTask(ok, k) ==
    IF ok THEN [pc |-> "loop", i |-> k + 1, ret |-> "none"]
          ELSE [pc |-> "idle", i |-> k, ret |-> "write"]

\* ------------------------------------------------------------- actions

\* RunExperiment up to the call of exp.run: BuildExperiment, then
\* initResults unless the result is reused.
RunExperiment(reuseResult, readOk) ==
    /\ pc = "idle"
    /\ reuseResult /\ driver.exp.Result # Nil
          => driver.exp.Result.NumLoops < MaxLoops
    /\ LET b == BuildExperiment(driver, readOk) IN
       IF b.err # "nil"
       THEN /\ exp' = Nil
            /\ pc' = "idle"
            /\ ret' = b.err
            /\ log' = <<Ev("read", 0, FALSE, Nil)>>
       ELSE /\ exp' = reuseOrInit(reuseResult, b.e, driver.revision)
            /\ pc' = "run"
            /\ ret' = "none"
            /\ log' = <<Ev("read", 0, TRUE, b.e.Result)>>
                      \o (IF reuseResult THEN <<>>
                          ELSE <<Ev("init", 0, TRUE, exp'.Result)>>)
    /\ i' = 0
    /\ UNCHANGED driver

\* Experiment.run, entry: the nil-result check and incrementNumLoops.
runStart ==
    /\ pc = "run"
    /\ IF exp.Result = Nil
       THEN /\ pc' = "idle"
            /\ ret' = "nilresult"
            /\ UNCHANGED <<exp, log>>
       ELSE /\ exp' = [exp EXCEPT !.Result = incrementNumLoops(@)]
            /\ log' = Append(log, Ev("loops", 0, TRUE, exp'.Result))
            /\ pc' = "writeLoop"
            /\ ret' = "none"
    /\ UNCHANGED <<driver, i>>

\* Experiment.run: the driver.Write that follows incrementNumLoops.
runWriteLoop(ok) ==
    /\ pc = "writeLoop"
    /\ log' = Append(log, Ev("write", 0, ok, exp.Result))
    /\ driver' = IF ok THEN Write(driver, exp) ELSE driver
    /\ LET a == afterWriteLoop(ok) IN
          /\ pc' = a.pc
          /\ i' = a.i
          /\ ret' = a.ret
    /\ UNCHANGED exp

\* Experiment.run: the range over exp.Spec is exhausted, return nil.
runReturn ==
    /\ pc = "loop"
    /\ i > Len(exp.Spec)
    /\ pc' = "idle"
    /\ ret' = "nil"
    /\ UNCHANGED <<driver, exp, i, log>>

\* Experiment.run: task i starts; its `if`, when it has one, is compiled
\* and evaluated.
runIf(out) ==
    /\ pc = "loop"
    /\ i <= Len(exp.Spec)
    /\ LET c == evalIf(exp.Spec[i].If, out) IN
          /\ pc' = c.pc
          /\ ret' = c.ret
          /\ log' = Append(log, Ev(c.ev, i, c.ok, exp.Result))
    /\ UNCHANGED <<driver, exp, i>>

\* Experiment.run: t.run(exp) of task i; on an error, failExperiment.
runTask(touches, n, fails) ==
    /\ pc = "exec"
    /\ LET t == TaskRun(exp.Result, touches, n, fails)
           a == afterRun(t.err)
       IN  /\ exp' = [exp EXCEPT !.Result =
                         IF t.err THEN failExperiment(t.r) ELSE t.r]
           /\ pc' = a.pc
           /\ ret' = a.ret
           /\ log' = Append(log, Ev("run", i, ~t.err, exp'.Result))
    /\ UNCHANGED <<driver, i>>

\* Experiment.run: the driver.Write that follows failExperiment; the write's
\* error is returned if it fails, the task's error otherwise.
runWriteFailure(ok) ==
    /\ pc = "writeFailure"
    /\ log' = Append(log, Ev("write", i, ok, exp.Result))
    /\ driver' = IF ok THEN Write(driver, exp) ELSE driver
    /\ pc' = "idle"
    /\ ret' = IF ok THEN "task" ELSE "write"
    /\ UNCHANGED <<exp, i>>

\* Experiment.run: incrementNumCompletedTasks after a task that ran
\* without error or was skipped.
runIncrement ==
    /\ pc = "count"
    /\ exp' = [exp EXCEPT !.Result = incrementNumCompletedTasks(@)]
    /\ log' = Append(log, Ev("tasks", i, TRUE, exp'.Result))
    /\ pc' = "writeTask"
    /\ UNCHANGED <<driver, i, ret>>

\* Experiment.run: the driver.Write that follows incrementNumCompletedTasks.
runWriteTask(ok) ==
    /\ pc = "writeTask"
    /\ log' = Append(log, Ev("write", i, ok, exp.Result))
    /\ driver' = IF ok THEN Write(driver, exp) ELSE driver
    /\ LET a == afterWriteTask(ok, i) IN
          /\ pc' = a.pc
          /\ i' = a.i
          /\ ret' = a.ret
    /\ UNCHANGED exp

Next ==
    \/ \E reuseResult \in BOOLEAN, readOk \in BOOLEAN :
          RunExperiment(reuseResult, readOk)
    \/ runStart
    \/ \E ok \in BOOLEAN : runWriteLoop(ok)
    \/ runReturn
    \/ \E out \in {"true", "false", "error"} : runIf(out)
    \/ \E touches \in BOOLEAN, n \in 1..MaxVersions, fails \in BOOLEAN :
          runTask(touches, n, fails)
    \/ \E ok \in BOOLEAN : runWriteFailure(ok)
    \/ runIncrement
    \/ \E ok \in BOOLEAN : runWriteTask(ok)

Spec == Init /\ [][Next]_vars

\* ------------------------------------------------------------ typing

ResultOK(r) ==
    \/ r = Nil
    \/ /\ r.Revision \in 0..MaxRevision
       /\ r.NumLoops \in 0..MaxLoops
       /\ r.NumCompletedTasks \in 0..(MaxTasks * MaxLoops)
       /\ r.Failure \in BOOLEAN
       /\ r.Insights = Nil \/ r.Insights.NumVersions \in 1..MaxVersions

TypeOK ==
    /\ ResultOK(driver.exp.Result)
    /\ exp = Nil \/ (exp.Spec = driver.exp.Spec /\ ResultOK(exp.Result))
    /\ pc \in {"idle", "run", "writeLoop", "loop", "exec", "writeFailure",
               "count", "writeTask"}
    /\ ret \in Errors \cup {"nil", "none"}
    /\ i \in 0..(MaxTasks + 1)

\* ------------------------------------------------- reading of the log

\* The invocation was started with reuseResult = false (initResults ran).
FreshInvocation(l) == Len(l) >= 2 /\ l[2].ev = "init"

\* Positions of the log with a given kind of entry.
Pos(l, ev) == {p \in 1..Len(l) : l[p].ev = ev}

\* Positions at which a task starts (its `if` is evaluated, or its run is
\* about to be invoked when it has no `if`).
Starts(l) == {p \in 1..Len(l) : l[p].ev \in {"start", "if", "skip"}}

\* The bound numCompletedTasks <= len(spec) * numLoops on one result.
WithinLoops(r, n) == r # Nil => r.NumCompletedTasks <= n * r.NumLoops

\* ---------------------------------------------------------------- C1

\* C1: numCompletedTasks <= len(spec) * numLoops holds of the in-memory
\* result, of the artifact the driver stores and of every artifact handed
\* to driver.Write, in every state reachable through any number of
\* RunExperiment invocations, however each of them ends.
C1_CompletedWithinLoops ==
    /\ exp # Nil => WithinLoops(exp.Result, Len(exp.Spec))
    /\ WithinLoops(driver.exp.Result, Len(driver.exp.Spec))
    /\ \A p \in Pos(log, "write") :
          WithinLoops(log[p].res, Len(driver.exp.Spec))

\* The bound is met with equality after two clean loops over a non-empty
\* spec, the second one on the reused result.
C1_Witness ==
    /\ pc = "idle" /\ ret = "nil"
    /\ ~FreshInvocation(log)
    /\ Len(exp.Spec) >= 1
    /\ exp.Result.NumLoops = 2
    /\ exp.Result.NumCompletedTasks = 2 * Len(exp.Spec)
    /\ driver.exp.Result = exp.Result

\* ---------------------------------------------------------------- C2

\* C2 as claimed: once failure is true in memory it is true in every later
\* in-memory result, also across re-invocations that reuse the result.
C2_FailureLatchedAcrossInvocations ==
    [][(/\ exp # Nil
        /\ exp.Result # Nil
        /\ exp.Result.Failure
        /\ ~FreshInvocation(log')
        /\ exp' # Nil
        /\ exp'.Result # Nil) => exp'.Result.Failure]_vars

\* C2 amended: inside an invocation failure never goes back to false, in
\* memory or in what is written; across invocations the latch is the stored
\* artifact: while invocations reuse the result, a stored failure = true
\* stays stored and is what the next invocation starts from.
C2_FailureLatched ==
    [][/\ (pc # "idle" /\ exp.Result # Nil /\ exp.Result.Failure)
             => (exp'.Result # Nil /\ exp'.Result.Failure)
       /\ (/\ driver.exp.Result # Nil
           /\ driver.exp.Result.Failure
           /\ ~FreshInvocation(log'))
             => /\ driver'.exp.Result # Nil
                /\ driver'.exp.Result.Failure
                /\ exp' # Nil => (exp'.Result # Nil /\ exp'.Result.Failure)
                /\ \A p \in Pos(log', "write") : log'[p].res.Failure]_vars

\* A reused result with failure = true has gone through a whole further
\* loop: it was read, counted and written again with failure = true.
C2_Witness ==
    /\ pc = "idle" /\ ret = "nil"
    /\ ~FreshInvocation(log)
    /\ log[1].res # Nil /\ log[1].res.Failure
    /\ Len(exp.Spec) >= 1
    /\ driver.exp.Result.Failure
    /\ driver.exp.Result.NumLoops = 2

\* ---------------------------------------------------------------- C3

\* What C3 says of a task run that returned an error at position p of the
\* log, with the value the invocation returns left open.
FailedRunAt(p) ==
    /\ log[p].res.Failure
    /\ log[p].res.NumCompletedTasks = log[p - 1].res.NumCompletedTasks
    /\ FreshInvocation(log) => log[p].res.NumCompletedTasks = log[p].i - 1
    /\ exp.Result = log[p].res
    /\ IF pc = "writeFailure"
       THEN Len(log) = p
       ELSE /\ pc = "idle"
            /\ Len(log) = p + 1
            /\ log[p + 1].ev = "write"
            /\ log[p + 1].i = log[p].i
            /\ log[p + 1].res = log[p].res

\* C3 as claimed: after the run of a task returns an error the engine sets
\* failure, writes once, counts nothing, starts nothing and returns the
\* task's error.
C3_TaskErrorReturned ==
    \A p \in Pos(log, "run") : ~log[p].ok =>
        /\ FailedRunAt(p)
        /\ pc = "idle" => ret = "task"

\* C3 amended: as claimed, but the invocation returns the task's error only
\* if the write of the failure succeeds, and the write's error if it fails.
C3_TaskError ==
    \A p \in Pos(log, "run") : ~log[p].ok =>
        /\ FailedRunAt(p)
        /\ pc = "idle" =>
              ret = (IF log[p + 1].ok THEN "task" ELSE "write")

\* The second task of a first loop failed after the first one was counted,
\* and the failure was written.
C3_Witness ==
    /\ pc = "idle" /\ ret = "task"
    /\ FreshInvocation(log)
    /\ log[Len(log) - 1].ev = "run" /\ ~log[Len(log) - 1].ok
    /\ log[Len(log) - 1].i = 2
    /\ exp.Result.NumCompletedTasks = 1
    /\ driver.exp.Result = exp.Result
    /\ exp.Result.Failure

\* ---------------------------------------------------------------- C4

\* The entry at position p of the log is followed by the count of its task
\* (numCompletedTasks + 1, nothing else changed) and then by the write of
\* the counted result, as far as the invocation has got.
CountedAndWritten(p) ==
    /\ p = Len(log) => (pc = "count" /\ exp.Result = log[p].res)
    /\ p < Len(log) =>
          /\ log[p + 1].ev = "tasks"
          /\ log[p + 1].i = log[p].i
          /\ log[p + 1].res.NumCompletedTasks = log[p].res.NumCompletedTasks + 1
          /\ log[p + 1].res =
                [log[p].res EXCEPT !.NumCompletedTasks = log[p + 1].res.NumCompletedTasks]
    /\ p + 1 = Len(log) => (pc = "writeTask" /\ exp.Result = log[p + 1].res)
    /\ p + 1 < Len(log) =>
          /\ log[p + 2].ev = "write"
          /\ log[p + 2].i = log[p].i
          /\ log[p + 2].res = log[p + 1].res

\* C4: a task whose `if` evaluates to false is not run and leaves the result
\* as it was (failure included), yet it is counted and the counted result is
\* written next, exactly as after a task that ran without error.
C4_SkippedTaskCounted ==
    /\ \A p \in Pos(log, "skip") :
          /\ exp.Spec[log[p].i].If = "ok"
          /\ \A q \in Pos(log, "run") : log[q].i # log[p].i
          /\ log[p].res = log[p - 1].res
          /\ CountedAndWritten(p)
    /\ \A p \in Pos(log, "run") : log[p].ok => CountedAndWritten(p)

\* A clean invocation in which a task was skipped and another one ran.
C4_Witness ==
    /\ pc = "idle" /\ ret = "nil"
    /\ Pos(log, "skip") # {}
    /\ \E p \in Pos(log, "run") : log[p].ok
    /\ driver.exp.Result = exp.Result
    /\ exp.Result.NumCompletedTasks >= 2

\* ---------------------------------------------------------------- C5

\* C5: inside an invocation the tasks start in declaration order, each at
\* most once; a run follows the start of its own task at once; and a task
\* other than the first starts right after the successful write that follows
\* the task before it (so after that task's run, if it ran, has returned).
C5_TasksInOrder ==
    LET S == Starts(log) IN
    /\ \A p \in S : log[p].i = Cardinality({q \in S : q <= p})
    /\ \A p \in S : log[p].i <= i
    /\ \A p \in S :
          /\ log[p - 1].ev = "write"
          /\ log[p - 1].ok
          /\ log[p - 1].i = log[p].i - 1
    /\ \A q \in Pos(log, "run") :
          /\ q - 1 \in S
          /\ log[q - 1].ev \in {"start", "if"}
          /\ log[q - 1].ok
          /\ log[q - 1].i = log[q].i

\* The second task of a spec has started after the first one ran and was
\* written.
C5_Witness ==
    /\ \E p \in Starts(log) : log[p].i = 2
    /\ \E q \in Pos(log, "run") : log[q].i = 1 /\ log[q].ok
    /\ \E q \in Pos(log, "run") : log[q].i = 2

\* ---------------------------------------------------------------- C6

\* C6: an invocation that passes the nil-result check increments numLoops
\* once and writes the result right after, before any task starts; every
\* count of a task is followed by the write of the counted result; and a
\* clean invocation over n tasks has made exactly n + 1 writes, all
\* successful, the one after task k with numCompletedTasks k above the
\* value at loop entry.
C6_WriteAfterLoopsAndTasks ==
    LET L == Pos(log, "loops")
        W == Pos(log, "write")
    IN
    /\ pc \notin {"idle", "run"} => L # {}
    /\ \A p \in L :
          /\ L = {p}
          /\ log[p - 1].ev \in {"read", "init"}
          /\ log[p].res.NumLoops = log[p - 1].res.NumLoops + 1
          /\ log[p].res = [log[p - 1].res EXCEPT !.NumLoops = log[p].res.NumLoops]
          /\ p = Len(log) => pc = "writeLoop"
          /\ p < Len(log) =>
                /\ log[p + 1].ev = "write"
                /\ log[p + 1].i = 0
                /\ log[p + 1].res = log[p].res
          /\ \A q \in Starts(log) \cup Pos(log, "run") : q > p + 1
    /\ \A p \in Pos(log, "tasks") :
          /\ p = Len(log) => pc = "writeTask"
          /\ p < Len(log) =>
                /\ log[p + 1].ev = "write"
                /\ log[p + 1].i = log[p].i
                /\ log[p + 1].res = log[p].res
    /\ (pc = "idle" /\ ret = "nil") =>
          /\ Cardinality(W) = Len(exp.Spec) + 1
          /\ {log[p].i : p \in W} = 0..Len(exp.Spec)
          /\ \A p \in W : log[p].ok
          /\ \A p \in W, q \in L :
                log[p].res.NumCompletedTasks =
                    log[q].res.NumCompletedTasks + log[p].i

\* A clean second loop over a spec of two tasks or more.
C6_Witness ==
    /\ pc = "idle" /\ ret = "nil"
    /\ Len(exp.Spec) >= 2
    /\ ~FreshInvocation(log)
    /\ Cardinality(Pos(log, "write")) = Len(exp.Spec) + 1
    /\ exp.Result.NumCompletedTasks = 2 * Len(exp.Spec)

\* ---------------------------------------------------------------- C7

\* C7 as claimed: the experiment is written at least three times per task.
\* Stated of an invocation that has returned after every task it started
\* ran to its end or was skipped.
C7_ThreeWritesPerTask ==
    (pc = "idle" /\ ret \in {"nil", "task"}) =>
        Cardinality(Pos(log, "write")) >= 3 * Cardinality(Starts(log))

\* C7 amended: run writes at three places, each at most once per task or per
\* invocation: once at loop entry, once after a task that was counted, once
\* after a task that failed (with failure = true). An invocation that
\* returns nil or a task's error has written once plus once per task started.
C7_OneWritePerTask ==
    LET W == Pos(log, "write") IN
    /\ Cardinality({p \in W : log[p].i = 0}) <= 1
    /\ \A k \in 1..Len(driver.exp.Spec) :
          Cardinality({p \in W : log[p].i = k}) <= 1
    /\ \A p \in W :
          \/ log[p].i = 0 /\ log[p - 1].ev = "loops"
          \/ log[p].i > 0 /\ log[p - 1].ev = "tasks" /\ log[p - 1].i = log[p].i
          \/ /\ log[p].i > 0
             /\ log[p - 1].ev = "run"
             /\ ~log[p - 1].ok
             /\ log[p - 1].i = log[p].i
             /\ log[p].res.Failure
    /\ (pc = "idle" /\ ret \in {"nil", "task"}) =>
          Cardinality(W) = 1 + Cardinality(Starts(log))

\* The second task failed: three writes in all, at loop entry, after the
\* first task and of the failure.
C7_Witness ==
    /\ pc = "idle" /\ ret = "task"
    /\ Cardinality(Starts(log)) = 2
    /\ Cardinality(Pos(log, "write")) = 3
    /\ log[Len(log)].res.Failure
    /\ ~log[Len(log) - 2].res.Failure

\* ---------------------------------------------------------------- C8

\* C8: an `if` that fails to compile or to evaluate ends the invocation with
\* that error: nothing happens after it, the task is neither run nor
\* counted, and the result is the one of the write before it.
C8_PredicateErrorAborts ==
    \A p \in Pos(log, "if") : ~log[p].ok =>
        /\ p = Len(log)
        /\ pc = "idle"
        /\ ret = (IF exp.Spec[log[p].i].If = "bad" THEN "compile" ELSE "eval")
        /\ \A q \in Pos(log, "run") \cup Pos(log, "tasks") : log[q].i < log[p].i
        /\ \A q \in Starts(log) : log[q].i <= log[p].i
        /\ log[p - 1].ev = "write"
        /\ exp.Result = log[p - 1].res
        /\ exp.Result.NumCompletedTasks = driver.exp.Result.NumCompletedTasks

\* The `if` of the second task failed to evaluate after the first task was
\* counted.
C8_Witness ==
    /\ pc = "idle" /\ ret = "eval"
    /\ log[Len(log)].ev = "if" /\ log[Len(log)].i = 2
    /\ exp.Result.NumCompletedTasks = exp.Result.NumLoops

\* ---------------------------------------------------------------- C9

\* C9: a driver error ends the invocation and is what it returns. After a
\* failed Read there is no experiment, no write and no task; after a failed
\* Write (at loop entry, after a task, or of a failure) nothing follows in
\* the invocation: no second write, no task, and the write's error is
\* returned, also when the write was the one of a failed task.
C9_DriverErrorReturned ==
    /\ (log # <<>> /\ ~log[1].ok) =>
          /\ log[1].ev = "read"
          /\ Len(log) = 1
          /\ pc = "idle"
          /\ ret = "read"
          /\ exp = Nil
    /\ \A p \in Pos(log, "write") : ~log[p].ok =>
          /\ p = Len(log)
          /\ pc = "idle"
          /\ ret = "write"
    /\ ret = "read" => (log # <<>> /\ ~log[1].ok)
    /\ ret = "write" => (log # <<>> /\ log[Len(log)].ev = "write"
                                    /\ ~log[Len(log)].ok)

\* The write of a failure failed: the invocation returned the write's error
\* and the driver still stores failure = false.
C9_Witness ==
    /\ pc = "idle" /\ ret = "write"
    /\ Len(log) >= 2
    /\ log[Len(log) - 1].ev = "run" /\ ~log[Len(log) - 1].ok
    /\ exp.Result.Failure
    /\ ~driver.exp.Result.Failure

\* --------------------------------------------------------------- C10

\* C10: with reuseResult = false the result read from the driver is replaced
\* by a fresh one carrying the driver's revision, and the first artifact
\* written is that fresh result with numLoops = 1; with reuseResult = true
\* the result read is the one the driver stores and the first artifact
\* written differs from it in numLoops only, which is one more.
C10_ReuseOrInit ==
    /\ pc = "run" => log[1].res = driver.exp.Result
    /\ FreshInvocation(log) =>
          /\ log[2].res = [Revision |-> driver.revision, NumLoops |-> 0,
                           NumCompletedTasks |-> 0, Failure |-> FALSE,
                           Insights |-> Nil]
          /\ pc = "run" => exp.Result = log[2].res
          /\ Len(log) >= 3 => log[3].ev = "loops"
          /\ Len(log) >= 4 =>
                /\ log[4].ev = "write"
                /\ log[4].res = [Revision |-> driver.revision, NumLoops |-> 1,
                                 NumCompletedTasks |-> 0, Failure |-> FALSE,
                                 Insights |-> Nil]
    /\ (log # <<>> /\ log[1].ok /\ ~FreshInvocation(log)) =>
          /\ pc = "run" => exp.Result = log[1].res
          /\ Len(log) >= 2 => (log[2].ev = "loops" /\ log[1].res # Nil)
          /\ Len(log) >= 3 =>
                /\ log[3].ev = "write"
                /\ log[3].res.NumLoops = log[1].res.NumLoops + 1
                /\ log[3].res = [log[1].res EXCEPT !.NumLoops = log[3].res.NumLoops]

\* A driver of revision 1 returned a failed result with counted tasks and
\* insights; RunExperiment(false) wrote a fresh one over it.
C10_Witness ==
    /\ FreshInvocation(log)
    /\ driver.revision = 1
    /\ log[1].res # Nil
    /\ log[1].res.Failure
    /\ log[1].res.NumCompletedTasks > 0
    /\ log[1].res.Insights # Nil
    /\ Len(log) >= 4
    /\ log[4].ok
    /\ driver.exp.Result.NumLoops = 1

\* --------------------------------------------------------------- C11

\* C11: when RunExperiment with reuseResult = false returns nil,
\* numCompletedTasks = len(spec), and Completed() and NoFailure() hold of the
\* in-memory experiment and of the last artifact written, which is the one
\* the driver stores.
C11_CleanRunCompleted ==
    (pc = "idle" /\ ret = "nil" /\ FreshInvocation(log)) =>
        LET W == Pos(log, "write")
            w == CHOOSE p \in W : \A q \in W : q <= p
        IN
        /\ exp.Result.NumCompletedTasks = Len(exp.Spec)
        /\ ~exp.Result.Failure
        /\ Completed(exp)
        /\ NoFailure(exp)
        /\ log[w].res = exp.Result
        /\ driver.exp = exp
        /\ Completed(driver.exp)
        /\ NoFailure(driver.exp)

\* A clean first run in which one task ran and one was skipped.
C11_Witness ==
    /\ pc = "idle" /\ ret = "nil"
    /\ FreshInvocation(log)
    /\ Len(exp.Spec) >= 2
    /\ Pos(log, "skip") # {}
    /\ Pos(log, "run") # {}
    /\ Completed(exp)
    /\ NoFailure(driver.exp)

\* ====================================================================
\* The insights store (metrics, SLOs) of base/experiment.go.
\* ====================================================================

\* ----------------------------------------------------- metric names
\* A string is a sequence of tokens; "/" and "." and the digits are tokens
\* of their own, so that strings.Split, strings.HasPrefix and
\* strconv.ParseFloat can be computed on it.

Digit == {"0", "1", "2", "3", "4", "5", "6", "7", "8", "9"}

DigitVal(d) ==
    CASE d = "0" -> 0 [] d = "1" -> 1 [] d = "2" -> 2 [] d = "3" -> 3
      [] d = "4" -> 4 [] d = "5" -> 5 [] d = "6" -> 6 [] d = "7" -> 7
      [] d = "8" -> 8 [] d = "9" -> 9

DigitOf(v) ==
    CASE v = 0 -> "0" [] v = 1 -> "1" [] v = 2 -> "2" [] v = 3 -> "3"
      [] v = 4 -> "4" [] v = 5 -> "5" [] v = 6 -> "6" [] v = 7 -> "7"
      [] v = 8 -> "8" [] v = 9 -> "9"

\* strings.HasPrefix
HasPrefix(m, pre) == Len(m) >= Len(pre) /\ SubSeq(m, 1, Len(pre)) = pre

\* strings.TrimPrefix
TrimPrefix(m, pre) ==
    IF HasPrefix(m, pre) THEN SubSeq(m, Len(pre) + 1, Len(m)) ELSE m

\* strings.Split(m, "/")
RECURSIVE Split(_)
Split(m) ==
    IF \A k \in 1..Len(m) : m[k] # "/"
    THEN <<m>>
    ELSE LET k == CHOOSE k \in 1..Len(m) :
                     m[k] = "/" /\ \A j \in 1..(k - 1) : m[j] # "/"
         IN  <<SubSeq(m, 1, k - 1)>> \o Split(SubSeq(m, k + 1, Len(m)))

\* The value of a run of digits, most significant first.
RECURSIVE DigitsVal(_)
DigitsVal(ds) ==
    IF ds = <<>> THEN 0
    ELSE 10 * DigitsVal(SubSeq(ds, 1, Len(ds) - 1)) + DigitVal(ds[Len(ds)])

\* strconv.ParseFloat on digits with an optional "." and up to two digits
\* after it; the float is kept in hundredths. Anything else is an error.
ParseFloat(t) ==
    LET dots == {k \in 1..Len(t) : t[k] = "."}
        d    == IF dots = {} THEN Len(t) + 1 ELSE CHOOSE k \in dots : TRUE
        ip   == SubSeq(t, 1, d - 1)
        fp   == SubSeq(t, d + 1, Len(t))
    IN  IF \/ Cardinality(dots) > 1
           \/ \E k \in 1..Len(t) : t[k] \notin Digit \cup {"."}
           \/ Len(ip) + Len(fp) = 0
           \/ Len(fp) > 2
        THEN [ok |-> FALSE, v |-> 0]
        ELSE [ok |-> TRUE,
              v  |-> 100 * DigitsVal(ip)
                     + (IF Len(fp) = 1 THEN 10 * DigitsVal(fp) ELSE DigitsVal(fp))]

\* The digits of a natural number, without leading zeros.
RECURSIVE NatDigits(_)
NatDigits(n) ==
    IF n < 10 THEN <<DigitOf(n)>> ELSE Append(NatDigits(n \div 10), DigitOf(n % 10))

\* A format that prints the number of hundredths.
FormatFloat_Hundredths(v) == NatDigits(v)

\* fmt.Sprintf("%v", percent) of a float kept in hundredths: the shortest
\* decimal, without trailing zeros.
FormatFloat(v) ==
    LET ip == v \div 100
        fr == v % 100
    IN  NatDigits(ip) \o
        (IF fr = 0 THEN <<>>
         ELSE IF fr % 10 = 0 THEN <<".", DigitOf(fr \div 10)>>
         ELSE <<".", DigitOf(fr \div 10), DigitOf(fr % 10)>>)

\* httpMetricPrefix + "/" + builtInHTTPLatencyPercentilePrefix
preHTTP == <<"http", "/", "latency-p">>

\* gRPCMetricPrefix + "/" + gRPCLatencySampleMetricName + "/" +
\* PercentileAggregatorPrefix
preGRPC == <<"grpc", "/", "latency", "/", "p">>

\* NormalizeMetricName: the name returned and whether an error is returned.
NormalizeMetricName(m) ==
    LET pre == IF HasPrefix(m, preHTTP) THEN preHTTP
               ELSE IF HasPrefix(m, preGRPC) THEN preGRPC
               ELSE <<>>
    IN  IF Len(pre) > 0
        THEN LET f == ParseFloat(TrimPrefix(m, pre)) IN
             IF ~f.ok THEN [nm |-> m, err |-> TRUE]
             ELSE [nm |-> pre \o FormatFloat(f.v), err |-> FALSE]
        ELSE [nm |-> m, err |-> FALSE]

\* --------------------------------------------------- metrics and values

\* MetricMeta{Description, Units, Type}; Units is a pointer to a string.
MetricMeta(d, u, t) == [Description |-> d, Units |-> u, Type |-> t]

\* The dynamic type of a value handed to updateMetric, with the value.
Float64(x) == [kind |-> "float64", f |-> x]
Float64s(xs) == [kind |-> "[]float64", fs |-> xs]
HistBuckets(bs) == [kind |-> "[]HistBucket", bs |-> bs]
OtherValue == [kind |-> "string"]

\* HistBucket{Lower, Upper, Count}
HistBucket(lo, up, c) == [Lower |-> lo, Upper |-> up, Count |-> c]

\* m[k] = v on a Go map.
MapPut(f, k, v) == [x \in DOMAIN f \cup {k} |-> IF x = k THEN v ELSE f[x]]

\* m[k] of a Go map of slices: the nil slice when the key is missing.
MapGet(f, k) == IF k \in DOMAIN f THEN f[k] ELSE <<>>

\* metricTypeMatch
metricTypeMatch(t, val) ==
    CASE val.kind = "float64" -> t \in {"counter", "gauge"}
      [] val.kind = "[]float64" -> t = "sample"
      [] val.kind = "[]HistBucket" -> t = "histogram"
      [] OTHER -> FALSE

\* registerMetric that lets a new meta replace the registered one.
registerMetric_Overwrite(in, m, mm) ==
    [in |-> [in EXCEPT !.MetricsInfo = MapPut(@, m, mm)], err |-> FALSE]

\* Insights.registerMetric: reflect.DeepEqual on two MetricMeta compares
\* the description, the string Units points to, and the type.
registerMetric(in, m, mm) ==
    IF m \in DOMAIN in.MetricsInfo /\ in.MetricsInfo[m] # mm
    THEN [in |-> in, err |-> TRUE]
    ELSE [in |-> [in EXCEPT !.MetricsInfo = MapPut(@, m, mm)], err |-> FALSE]

\* updateMetricValueScalar that keeps the new observation only.
updateMetricValueScalar_Replace(in, m, k, val) ==
    [in EXCEPT !.NonHistMetricValues.v[k + 1] = MapPut(@, m, <<val>>)]

\* Insights.updateMetricValueScalar
updateMetricValueScalar(in, m, k, val) ==
    [in EXCEPT !.NonHistMetricValues.v[k + 1] =
        MapPut(@, m, Append(MapGet(@, m), val))]

\* updateMetricValueVector that appends the sample in the histogram store.
updateMetricValueVector_InHist(in, m, k, val) ==
    [in EXCEPT !.HistMetricValues.v[k + 1] =
        MapPut(@, m, MapGet(@, m) \o val)]

\* Insights.updateMetricValueVector
updateMetricValueVector(in, m, k, val) ==
    [in EXCEPT !.NonHistMetricValues.v[k + 1] =
        MapPut(@, m, MapGet(@, m) \o val)]

\* Insights.updateMetricValueHist
updateMetricValueHist(in, m, k, val) ==
    [in EXCEPT !.HistMetricValues.v[k + 1] =
        MapPut(@, m, MapGet(@, m) \o val)]

\* The append of updateMetric for a value of the type of the meta; an index
\* outside the store is a run-time panic.
updateMetricValue(in, nm, mm, k, val) ==
    LET store == IF mm.Type = "histogram" THEN in.HistMetricValues
                                          ELSE in.NonHistMetricValues
    IN  IF k < 0 \/ k >= SliceLen(store)
        THEN [in |-> in, err |-> "panic", why |-> "index"]
        ELSE [in |-> CASE mm.Type \in {"counter", "gauge"} ->
                            updateMetricValueScalar(in, nm, k, val.f)
                       [] mm.Type = "sample" ->
                            updateMetricValueVector(in, nm, k, val.fs)
                       [] mm.Type = "histogram" ->
                            updateMetricValueHist(in, nm, k, val.bs),
              err |-> "nil", why |-> "none"]

\* updateMetric that registers the meta before it looks at the version
\* index.
updateMetric_RegisterFirst(in, m, mm, k, val) ==
    IF ~metricTypeMatch(mm.Type, val)
    THEN [in |-> in, err |-> "error", why |-> "type"]
    ELSE LET n == NormalizeMetricName(m) IN
         IF n.err THEN [in |-> in, err |-> "error", why |-> "name"]
         ELSE LET reg == registerMetric(in, n.nm, mm) IN
              IF reg.err THEN [in |-> in, err |-> "error", why |-> "meta"]
              ELSE IF in.NumVersions <= k
              THEN [in |-> reg.in, err |-> "error", why |-> "version"]
              ELSE updateMetricValue(reg.in, n.nm, mm, k, val)

\* Insights.updateMetric: the insights after the call, what the call
\* returns ("nil", "error" or "panic") and which check made it fail.
updateMetric(in, m, mm, k, val) ==
    IF ~metricTypeMatch(mm.Type, val)
    THEN [in |-> in, err |-> "error", why |-> "type"]
    ELSE IF in.NumVersions <= k
    THEN [in |-> in, err |-> "error", why |-> "version"]
    ELSE LET n == NormalizeMetricName(m) IN
         IF n.err THEN [in |-> in, err |-> "error", why |-> "name"]
         ELSE LET reg == registerMetric(in, n.nm, mm) IN
              IF reg.err THEN [in |-> in, err |-> "error", why |-> "meta"]
              ELSE updateMetricValue(reg.in, n.nm, mm, k, val)

\* setSLOs that stores the new limits over the old ones.
setSLOs_Overwrite(in, slos) == [in |-> [in EXCEPT !.SLOs = slos], err |-> FALSE]

\* Insights.setSLOs: SLOLimits{Upper, Lower} are lists of SLO{Metric, Limit}.
setSLOs(in, slos) ==
    IF in.SLOs # Nil
    THEN [in |-> in, err |-> in.SLOs # slos]
    ELSE [in |-> [in EXCEPT !.SLOs = slos], err |-> FALSE]

\* Experiment.initializeSLOsSatisfied, on non-nil insights.
initializeSLOsSatisfied(in) ==
    IF in.SLOsSatisfied # Nil THEN in
    ELSE [in EXCEPT !.SLOsSatisfied =
            IF in.SLOs # Nil
            THEN [Upper |-> [k \in 1..Len(in.SLOs.Upper) |->
                               [j \in 1..in.NumVersions |-> FALSE]],
                  Lower |-> [k \in 1..Len(in.SLOs.Lower) |->
                               [j \in 1..in.NumVersions |-> FALSE]]]
            ELSE [Upper |-> <<>>, Lower |-> <<>>]]

\* ------------------------------------------------------ reading metrics

\* A run-time panic as the outcome of a call.
Panic == [panic |-> TRUE]

\* float64Pointer(x) is Some(x); a nil *float64 is Nil.

\* The sum of a list of floats.
RECURSIVE SumSeq(_)
SumSeq(xs) == IF xs = <<>> THEN 0 ELSE Head(xs) + SumSeq(Tail(xs))

\* The least element of a list that is not empty.
MinSeq(xs) == CHOOSE x \in {xs[p] : p \in DOMAIN xs} :
                 \A p \in DOMAIN xs : x <= xs[p]

\* The greatest element of a list that is not empty.
MaxSeq(xs) == CHOOSE x \in {xs[p] : p \in DOMAIN xs} :
                 \A p \in DOMAIN xs : x >= xs[p]

\* A mean that is 0 for an empty input.
Mean_EmptyIsZero(xs) ==
    IF xs = <<>> THEN Some(0) ELSE Some(SumSeq(xs) \div Len(xs))

\* stats.Mean, in hundredths (the quotient is truncated); an empty input
\* is an error.
Mean(xs) == IF xs = <<>> THEN Nil ELSE Some(SumSeq(xs) \div Len(xs))

\* stats.Min
Min(xs) == IF xs = <<>> THEN Nil ELSE Some(MinSeq(xs))

\* stats.StandardDeviation: the population standard deviation, rounded
\* down to hundredths.
StandardDeviation(xs) ==
    IF xs = <<>> THEN Nil
    ELSE LET mu == SumSeq(xs) \div Len(xs)
             var == SumSeq([p \in DOMAIN xs |-> (xs[p] - mu) * (xs[p] - mu)])
                      \div Len(xs)
         IN  Some(CHOOSE r \in 0..(MaxSeq(xs) - MinSeq(xs)) :
                    r * r <= var /\ (r + 1) * (r + 1) > var)

\* stats.Percentile of a percent kept in hundredths: the element at the
\* rank percent/100 * len of the sorted copy when the rank is whole, the
\* mean of the two elements around it otherwise.
Percentile(xs, percent) ==
    IF xs = <<>> THEN Nil
    ELSE IF Len(xs) = 1 THEN Some(xs[1])
    ELSE IF percent <= 0 \/ percent > 10000 THEN Nil
    ELSE LET c == SortSeq(xs, LAMBDA a, b : a < b)
             num == percent * Len(c)
             idx == num \div 10000
         IN  IF num % 10000 = 0 THEN Some(c[idx])
             ELSE IF num > 10000 THEN Mean(<<c[idx], c[idx + 1]>>)
             ELSE Nil

\* regexp.MatchString(decimalRegex, b): digits, then optionally a point
\* and more digits.
decimalRegex(b) ==
    LET dots == {p \in DOMAIN b : b[p] = "."}
    IN  /\ b # <<>>
        /\ \A p \in DOMAIN b : b[p] \in Digit \cup {"."}
        /\ Cardinality(dots) <= 1
        /\ b[1] # "."
        /\ b[Len(b)] # "."

\* getCounterOrGaugeMetricFromValuesMap that returns the first observation.
getCounterOrGaugeMetricFromValuesMap_First(in, k, m) ==
    IF m \notin DOMAIN in.MetricsInfo THEN Nil
    ELSE IF in.MetricsInfo[m].Type \notin {"counter", "gauge"} THEN Nil
    ELSE IF SliceLen(in.NonHistMetricValues) <= k THEN Nil
    ELSE IF k < 0 THEN Panic
    ELSE LET vals == MapGet(in.NonHistMetricValues.v[k + 1], m)
         IN  IF Len(vals) > 0 THEN Some(vals[1]) ELSE Nil

\* Insights.getCounterOrGaugeMetricFromValuesMap
getCounterOrGaugeMetricFromValuesMap(in, k, m) ==
    IF m \notin DOMAIN in.MetricsInfo THEN Nil
    ELSE IF in.MetricsInfo[m].Type \notin {"counter", "gauge"} THEN Nil
    ELSE IF SliceLen(in.NonHistMetricValues) <= k THEN Nil
    ELSE IF k < 0 THEN Panic
    ELSE LET vals == MapGet(in.NonHistMetricValues.v[k + 1], m)
         IN  IF Len(vals) > 0 THEN Some(vals[Len(vals)]) ELSE Nil

\* getSampleAggregation that has no value for a sample of size 1.
getSampleAggregation_NoSingle(in, k, baseMetric, a) ==
    IF k < 0 \/ k >= SliceLen(in.NonHistMetricValues) THEN Panic
    ELSE LET vals == MapGet(in.NonHistMetricValues.v[k + 1], baseMetric)
             b == TrimPrefix(a, <<"p">>)
         IN  IF Len(vals) <= 1 THEN Nil
             ELSE CASE a = <<"mean">> -> Mean(vals)
                    [] a = <<"stddev">> -> StandardDeviation(vals)
                    [] a = <<"min">> -> Min(vals)
                    [] a = <<"max">> -> Mean(vals)
                    [] OTHER ->
                         IF ~HasPrefix(a, <<"p">>) THEN Nil
                         ELSE IF ~decimalRegex(b) THEN Nil
                         ELSE IF ~ParseFloat(b).ok THEN Nil
                         ELSE Percentile(vals, ParseFloat(b).v)

\* Insights.getSampleAggregation
getSampleAggregation(in, k, baseMetric, a) ==
    IF k < 0 \/ k >= SliceLen(in.NonHistMetricValues) THEN Panic
    ELSE LET vals == MapGet(in.NonHistMetricValues.v[k + 1], baseMetric)
             b == TrimPrefix(a, <<"p">>)
         IN  IF Len(vals) = 1 THEN Some(vals[1])
             ELSE CASE a = <<"mean">> -> Mean(vals)
                    [] a = <<"stddev">> -> StandardDeviation(vals)
                    [] a = <<"min">> -> Min(vals)
                    [] a = <<"max">> -> Mean(vals)
                    [] OTHER ->
                         IF ~HasPrefix(a, <<"p">>) THEN Nil
                         ELSE IF ~decimalRegex(b) THEN Nil
                         ELSE IF ~ParseFloat(b).ok THEN Nil
                         ELSE Percentile(vals, ParseFloat(b).v)

\* Insights.aggregateMetric, for a name of three segments.
aggregateMetric(in, k, m) ==
    LET s == Split(m)
        baseMetric == s[1] \o <<"/">> \o s[2]
    IN  IF baseMetric \notin DOMAIN in.MetricsInfo THEN Nil
        ELSE IF in.MetricsInfo[baseMetric].Type # "sample" THEN Nil
        ELSE getSampleAggregation(in, k, baseMetric, s[3])

\* ScalarMetricValue that reads the name as it is given.
ScalarMetricValue_NoNormalize(in, k, m) ==
    LET s == Split(m)
    IN  IF Len(s) = 3 THEN aggregateMetric(in, k, m)
        ELSE IF Len(s) = 2
        THEN getCounterOrGaugeMetricFromValuesMap(in, k, m)
        ELSE Nil

\* Insights.ScalarMetricValue: Some(value), Nil or Panic.
ScalarMetricValue(in, k, m) ==
    LET s == Split(m)
    IN  IF Len(s) = 3 THEN aggregateMetric(in, k, m)
        ELSE IF Len(s) = 2
        THEN LET n == NormalizeMetricName(m) IN
             IF n.err THEN Nil
             ELSE getCounterOrGaugeMetricFromValuesMap(in, k, n.nm)
        ELSE Nil

\* ------------------------------------------------------------ SLOs

\* One term SLOsSatisfied.Upper[k][j] or SLOsSatisfied.Lower[k][j] of the
\* loops of getSLOsSatisfiedBy: "true", "false", or "panic" when
\* SLOsSatisfied is nil or the index is out of range.
Cell(in, side, k, j) ==
    IF in.SLOsSatisfied = Nil THEN "panic"
    ELSE LET rows == in.SLOsSatisfied[side]
         IN  IF k > Len(rows) THEN "panic"
             ELSE IF j > Len(rows[k]) THEN "panic"
             ELSE IF rows[k][j] THEN "true" ELSE "false"

\* The cells version j goes through, in the order of the two loops.
CellsOf(in, j) ==
    [k \in 1..Len(in.SLOs.Upper) |-> Cell(in, "Upper", k, j)] \o
    [k \in 1..Len(in.SLOs.Lower) |-> Cell(in, "Lower", k, j)]

\* satThis of version j: the first cell that is not true stops the
\* evaluation (&& does not evaluate its right side once satThis is false).
SatThis(in, j) ==
    LET c == CellsOf(in, j)
        bad == {p \in DOMAIN c : c[p] # "true"}
    IN  IF bad = {} THEN "true"
        ELSE c[CHOOSE p \in bad : \A q \in bad : p <= q]

\* getSLOsSatisfiedBy that counts a version as soon as one of its cells is
\* true.
getSLOsSatisfiedBy_AnyCell(e) ==
    IF e = Nil THEN Nil
    ELSE IF e.Result = Nil THEN Nil
    ELSE IF e.Result.Insights = Nil THEN Nil
    ELSE LET in == e.Result.Insights IN
         IF in.NumVersions = 0 THEN Nil
         ELSE IF in.SLOs = Nil THEN Some(1..in.NumVersions)
         ELSE IF \E j \in 1..in.NumVersions : SatThis(in, j) = "panic"
         THEN Panic
         ELSE Some({j \in 1..in.NumVersions :
                      \/ SatThis(in, j) = "true"
                      \/ \E p \in DOMAIN CellsOf(in, j) :
                            CellsOf(in, j)[p] = "true"})

\* Experiment.getSLOsSatisfiedBy: Nil for the nil slice, Some(versions) for
\* the list of the versions that satisfy the SLOs, Panic.
getSLOsSatisfiedBy(e) ==
    IF e = Nil THEN Nil
    ELSE IF e.Result = Nil THEN Nil
    ELSE IF e.Result.Insights = Nil THEN Nil
    ELSE LET in == e.Result.Insights IN
         IF in.NumVersions = 0 THEN Nil
         ELSE IF in.SLOs = Nil THEN Some(1..in.NumVersions)
         ELSE IF \E j \in 1..in.NumVersions : SatThis(in, j) = "panic"
         THEN Panic
         ELSE Some({j \in 1..in.NumVersions : SatThis(in, j) = "true"})

\* Experiment.SLOs: "true", "false" or "panic"; len(sby) of the nil slice
\* is 0.
SLOs(e) ==
    IF e = Nil THEN "false"
    ELSE IF e.Result = Nil THEN "false"
    ELSE IF e.Result.Insights = Nil THEN "false"
    ELSE LET sby == getSLOsSatisfiedBy(e)
             len == IF sby = Nil THEN 0 ELSE Cardinality(sby.v)
         IN  IF sby = Panic THEN "panic"
             ELSE IF e.Result.Insights.NumVersions = len THEN "true"
             ELSE "false"

\* The assess task: it sets the SLOs, sizes SLOsSatisfied for them and
\* fills every cell from ScalarMetricValue: an upper cell is true when the
\* value is there and at most the limit, a lower cell when it is there and
\* at least the limit.
assess(in, slos) ==
    LET set == setSLOs(in, slos) IN
    IF set.err THEN [in |-> in, err |-> "error"]
    ELSE IF slos = Nil THEN [in |-> set.in, err |-> "nil"]
    ELSE LET val(j, m) == ScalarMetricValue(set.in, j - 1, m)
             up == [k \in 1..Len(slos.Upper) |->
                      [j \in 1..in.NumVersions |->
                         LET x == val(j, slos.Upper[k].Metric) IN
                         x \notin {Nil, Panic} /\ x.v <= slos.Upper[k].Limit]]
             lo == [k \in 1..Len(slos.Lower) |->
                      [j \in 1..in.NumVersions |->
                         LET x == val(j, slos.Lower[k].Metric) IN
                         x \notin {Nil, Panic} /\ x.v >= slos.Lower[k].Limit]]
         IN  [in |-> [set.in EXCEPT !.SLOsSatisfied =
                                       [Upper |-> up, Lower |-> lo]],
              err |-> "nil"]

\* ------------------------------------------ the insights store, driven

\* The largest number of versions of the insights, and the number of
\* updateMetric calls that succeed.
MaxInsVersions == 1
MaxUpdates == 1

\* Metric names, as strings of tokens: two spellings of the built-in http
\* 95th percentile, an http percentile that does not parse, the gRPC
\* latency sample with its mean and with a percentile that does not parse.
httpP95 == preHTTP \o <<"9", "5">>
httpP95_00 == preHTTP \o <<"9", "5", ".", "0", "0">>
httpPx == preHTTP \o <<"x">>
grpcLatency == <<"grpc", "/", "latency">>
grpcMean == grpcLatency \o <<"/", "mean">>
grpcPx == preGRPC \o <<"x">>
grpcMax == grpcLatency \o <<"/", "max">>
grpcCount == grpcLatency \o <<"/", "count">>
oneSegment == <<"latency">>
fourSegments == grpcMean \o <<"/", "x">>

\* The names handed to updateMetric.
NameSet == {httpP95, httpP95_00, httpPx, grpcLatency}

\* The metas and values handed to updateMetric: every type with a value
\* of its shape, metas that differ from the first in one field, and values
\* of a shape that is not the one of the type.
gaugeMeta == MetricMeta("d", Nil, "gauge")
sampleMeta == MetricMeta("d", Nil, "sample")
histMeta == MetricMeta("d", Nil, "histogram")

ObservationSet ==
    {<<gaugeMeta, Float64(500)>>, <<gaugeMeta, Float64(1500)>>,
     <<MetricMeta("e", Nil, "gauge"), Float64(500)>>,
     <<MetricMeta("d", Some("msec"), "gauge"), Float64(500)>>,
     <<MetricMeta("d", Nil, "counter"), Float64(500)>>,
     <<sampleMeta, Float64s(<<500>>)>>, <<sampleMeta, Float64s(<<500, 1500>>)>>,
     <<sampleMeta, Float64s(<<>>)>>,
     <<histMeta, HistBuckets(<<HistBucket(0, 100, 1)>>)>>,
     <<gaugeMeta, Float64s(<<500>>)>>, <<sampleMeta, Float64(500)>>,
     <<histMeta, Float64(500)>>, <<gaugeMeta, OtherValue>>}

\* The metas and values of the updateMetric calls that the store goes
\* through; the other observations are applied to every store reached.
StoredObservations ==
    {<<gaugeMeta, Float64(500)>>, <<gaugeMeta, Float64(1500)>>,
     <<MetricMeta("d", Nil, "counter"), Float64(500)>>,
     <<sampleMeta, Float64s(<<500, 1500>>)>>, <<sampleMeta, Float64s(<<>>)>>,
     <<histMeta, HistBuckets(<<HistBucket(0, 100, 1)>>)>>,
     <<gaugeMeta, Float64s(<<500>>)>>, <<gaugeMeta, OtherValue>>}

\* The names, metas and values of the updateMetric calls that come before
\* the reads: scalars and samples of size 0, 1 and 2, in both orders.
ReadNameSet == {httpP95, httpP95_00, grpcLatency}

ReadObservations ==
    {<<gaugeMeta, Float64(500)>>, <<gaugeMeta, Float64(1500)>>,
     <<MetricMeta("d", Nil, "counter"), Float64(500)>>,
     <<sampleMeta, Float64s(<<>>)>>, <<sampleMeta, Float64s(<<500>>)>>,
     <<sampleMeta, Float64s(<<500, 1500>>)>>,
     <<sampleMeta, Float64s(<<1500, 500>>)>>}

\* SLO{Metric, Limit}
SLO(m, l) == [Metric |-> m, Limit |-> l]

\* SLOLimits{Upper, Lower}
SLOLimits(up, lo) == [Upper |-> up, Lower |-> lo]

\* The limits handed to setSLOs and to the assess task; Nil is the nil
\* pointer.
SLOSet ==
    {Nil,
     SLOLimits(<<SLO(httpP95, 500)>>, <<>>),
     SLOLimits(<<SLO(httpP95_00, 1000)>>, <<SLO(httpP95, 500)>>),
     SLOLimits(<<SLO(grpcPx, 1000)>>, <<SLO(httpPx, 0), SLO(grpcMean, 1000)>>)}

\* The names handed to ScalarMetricValue.
QuerySet ==
    {httpP95, httpP95_00, httpPx, grpcMean, grpcMax, grpcCount, grpcPx,
     grpcLatency, oneSegment, fourSegments}

\* The outcome of the last call on the store.
Outcome(op, err, why, out) == [op |-> op, err |-> err, why |-> why, out |-> out]

\* exp.Result.Insights
Insights == exp.Result.Insights

\* An experiment whose result initResults has just made: no insights.
InitStore ==
    /\ driver = [exp |-> Nil, revision |-> 0]
    /\ exp = [Spec |-> <<>>, Result |-> initResults(0)]
    /\ pc = "store"
    /\ i = 0
    /\ ret = Outcome("none", "nil", "none", Nil)
    /\ log = <<>>

\* A panic ends the process.
Alive == pc = "store" /\ ret.err # "panic"

\* A call of initInsightsWithNumVersions(n).
InsightsInit(n) ==
    /\ Alive
    /\ LET a == initInsightsWithNumVersions(exp.Result, n) IN
       /\ exp' = [exp EXCEPT !.Result = a.r]
       /\ ret' = Outcome("initInsightsWithNumVersions",
                         IF a.panic THEN "panic"
                         ELSE IF a.err THEN "error" ELSE "nil",
                         "none", Nil)
    /\ UNCHANGED <<driver, pc, i, log>>

\* A call of updateMetric(m, mm, k, val) on the insights; MaxUpdates of
\* them may succeed. ret.out.m is the name a successful call was given.
InsightsUpdateMetric(m, mm, k, val) ==
    /\ Alive
    /\ Insights # Nil
    /\ LET a == updateMetric(Insights, m, mm, k, val) IN
       /\ a.err = "nil" => i < MaxUpdates
       /\ exp' = [exp EXCEPT !.Result.Insights = a.in]
       /\ ret' = Outcome("updateMetric", a.err, a.why,
                         IF a.err = "nil" THEN [m |-> m] ELSE Nil)
       /\ i' = IF a.err = "nil" THEN i + 1 ELSE i
    /\ UNCHANGED <<driver, pc, log>>

\* A call of setSLOs(slos).
InsightsSetSLOs(slos) ==
    /\ Alive
    /\ Insights # Nil
    /\ LET a == setSLOs(Insights, slos) IN
       /\ exp' = [exp EXCEPT !.Result.Insights = a.in]
       /\ ret' = Outcome("setSLOs", IF a.err THEN "error" ELSE "nil",
                         "none", Nil)
    /\ UNCHANGED <<driver, pc, i, log>>

\* A call of initializeSLOsSatisfied.
InsightsInitializeSLOsSatisfied ==
    /\ Alive
    /\ Insights # Nil
    /\ exp' = [exp EXCEPT !.Result.Insights = initializeSLOsSatisfied(@)]
    /\ ret' = Outcome("initializeSLOsSatisfied", "nil", "none", Nil)
    /\ UNCHANGED <<driver, pc, i, log>>

\* A run of the assess task with the limits slos.
InsightsAssess(slos) ==
    /\ Alive
    /\ Insights # Nil
    /\ LET a == assess(Insights, slos) IN
       /\ exp' = [exp EXCEPT !.Result.Insights = a.in]
       /\ ret' = Outcome("assess", a.err, "none", Nil)
    /\ UNCHANGED <<driver, pc, i, log>>

\* A call of SLOs(); ret.out.b is what it returns.
InsightsSLOs ==
    /\ Alive
    /\ LET out == SLOs(exp) IN
       ret' = Outcome("SLOs", IF out = "panic" THEN "panic" ELSE "nil",
                      "none", [b |-> out])
    /\ UNCHANGED <<driver, exp, pc, i, log>>

\* A call of ScalarMetricValue(k, m); ret.out is what it returns.
InsightsScalarMetricValue(k, m) ==
    /\ Alive
    /\ Insights # Nil
    /\ LET out == ScalarMetricValue(Insights, k, m) IN
       ret' = Outcome("ScalarMetricValue",
                      IF out = Panic THEN "panic" ELSE "nil", "none", out)
    /\ UNCHANGED <<driver, exp, pc, i, log>>

\* The metrics store on its own: allocation, updates, readings.
NextMetrics ==
    \/ \E n \in 0..MaxInsVersions : InsightsInit(n)
    \/ \E m \in NameSet, o \in StoredObservations, k \in 0..MaxInsVersions :
          InsightsUpdateMetric(m, o[1], k, o[2])
    \/ \E k \in 0..(MaxInsVersions - 1), m \in QuerySet :
          InsightsScalarMetricValue(k, m)

SpecMetrics == InitStore /\ [][NextMetrics]_vars

\* The store under the calls that write scalars and samples and the calls
\* that read them.
NextReads ==
    \/ \E n \in 0..MaxInsVersions : InsightsInit(n)
    \/ \E m \in ReadNameSet, o \in ReadObservations, k \in 0..MaxInsVersions :
          InsightsUpdateMetric(m, o[1], k, o[2])
    \/ \E k \in 0..(MaxInsVersions - 1), m \in QuerySet :
          InsightsScalarMetricValue(k, m)

SpecReads == InitStore /\ [][NextReads]_vars

\* The metrics the SLOs of SLOSet read, and observations of them.
SLONameSet == {httpP95, grpcLatency}

SLOObservationSet ==
    {<<gaugeMeta, Float64(500)>>, <<gaugeMeta, Float64(1500)>>,
     <<sampleMeta, Float64s(<<500>>)>>, <<sampleMeta, Float64s(<<500, 1500>>)>>}

\* The SLOs of an experiment: the store is filled, the limits are set, the
\* satisfaction matrices allocated and assessed, and SLOs() is called.
NextSLOs ==
    \/ \E n \in 0..MaxInsVersions : InsightsInit(n)
    \/ \E m \in SLONameSet, o \in SLOObservationSet,
          k \in 0..(MaxInsVersions - 1) :
          InsightsUpdateMetric(m, o[1], k, o[2])
    \/ \E slos \in SLOSet : InsightsSetSLOs(slos)
    \/ InsightsInitializeSLOsSatisfied
    \/ \E slos \in SLOSet : InsightsAssess(slos)
    \/ InsightsSLOs

SpecSLOs == InitStore /\ [][NextSLOs]_vars

\* ----------------------------------------------------------- C12, C13

\* The cell of row k and version j exists in SLOsSatisfied and is true.
CellTrue(side, k, j) ==
    /\ Insights.SLOsSatisfied # Nil
    /\ k <= Len(Insights.SLOsSatisfied[side])
    /\ j <= Len(Insights.SLOsSatisfied[side][k])
    /\ Insights.SLOsSatisfied[side][k][j]

\* Every cell of every configured SLO and every version exists and is true.
AllCellsTrue ==
    \A j \in 1..Insights.NumVersions :
       /\ \A k \in 1..Len(Insights.SLOs.Upper) : CellTrue("Upper", k, j)
       /\ \A k \in 1..Len(Insights.SLOs.Lower) : CellTrue("Lower", k, j)

\* C12: with insights that are not nil and at least one version, SLOs()
\* returns true exactly when, for every configured SLO and every version,
\* the cell of SLOsSatisfied.Upper or SLOsSatisfied.Lower is true; with no
\* SLOs configured it returns true.
C12_SLOsIffAllCells ==
    (pc = "store" /\ Insights # Nil /\ Insights.NumVersions >= 1) =>
       /\ Insights.SLOs = Nil => SLOs(exp) = "true"
       /\ Insights.SLOs # Nil => (SLOs(exp) = "true" <=> AllCellsTrue)
       /\ ret.op = "SLOs" /\ ret.err = "nil" => ret.out.b = SLOs(exp)

\* SLOs() was called and returned true with an upper and a lower SLO
\* configured.
C12_Witness ==
    /\ pc = "store"
    /\ ret.op = "SLOs"
    /\ ret.out.b = "true"
    /\ Insights.NumVersions >= 1
    /\ Insights.SLOs # Nil
    /\ Len(Insights.SLOs.Upper) >= 1
    /\ Len(Insights.SLOs.Lower) >= 1

\* C13: SLOs() returns false when the insights are nil and when they have
\* no version.
C13_FalseWithoutVersions ==
    (pc = "store" /\ ret.op = "SLOs"
       /\ (Insights = Nil \/ Insights.NumVersions = 0)) =>
       ret.out.b = "false"

\* ---------------------------------------------------------------- C14

\* The name carries a percentile that does not parse: the token after a
\* built-in percentile prefix, or after the "p" of an aggregator.
UnparseablePercentile(m) ==
    LET s == Split(m)
    IN  \/ HasPrefix(m, preHTTP) /\ ~ParseFloat(TrimPrefix(m, preHTTP)).ok
        \/ /\ Len(s) = 3
           /\ HasPrefix(s[3], <<"p">>)
           /\ ~ParseFloat(TrimPrefix(s[3], <<"p">>)).ok

\* The reasons the specification gives for a value of metric m to be
\* absent for version j (1-based here).
ClaimedAbsent(j, m) ==
    LET s == Split(m)
        base == IF Len(s) = 3 THEN s[1] \o <<"/">> \o s[2]
                ELSE NormalizeMetricName(m).nm
        types == IF Len(s) = 3 THEN {"sample"} ELSE {"counter", "gauge"}
    IN  \/ UnparseablePercentile(m)
        \/ base \notin DOMAIN Insights.MetricsInfo
        \/ Insights.MetricsInfo[base].Type \notin types
        \/ MapGet(Insights.NonHistMetricValues.v[j], base) = <<>>

\* C14: right after an assess that succeeded, an upper cell is true
\* exactly when the value of its metric is present and at most the limit,
\* a lower cell exactly when it is present and at least the limit; a
\* metric that is unregistered, of the wrong type, without observation or
\* with an unparseable percentile has a false cell, and SLOs() is then
\* false.
C14_AbsentCellFalse ==
    (pc = "store" /\ ret.op = "assess" /\ ret.err = "nil"
       /\ Insights.SLOs # Nil) =>
       \A j \in 1..Insights.NumVersions :
          /\ \A k \in 1..Len(Insights.SLOs.Upper) :
                LET slo == Insights.SLOs.Upper[k]
                    x == ScalarMetricValue(Insights, j - 1, slo.Metric)
                IN  /\ CellTrue("Upper", k, j) <=>
                          (x # Nil /\ x.v <= slo.Limit)
                    /\ ClaimedAbsent(j, slo.Metric) =>
                          ~CellTrue("Upper", k, j) /\ SLOs(exp) = "false"
          /\ \A k \in 1..Len(Insights.SLOs.Lower) :
                LET slo == Insights.SLOs.Lower[k]
                    x == ScalarMetricValue(Insights, j - 1, slo.Metric)
                IN  /\ CellTrue("Lower", k, j) <=>
                          (x # Nil /\ x.v >= slo.Limit)
                    /\ ClaimedAbsent(j, slo.Metric) =>
                          ~CellTrue("Lower", k, j) /\ SLOs(exp) = "false"

\* ---------------------------------------------------------------- C15

\* The insights after each operation of the store, for every input of the
\* sets above.
AfterAnyOperation ==
    {initInsightsWithNumVersions(exp.Result, n).r.Insights :
        n \in 0..(MaxInsVersions + 1)}
    \cup {updateMetric(Insights, m, o[1], k, o[2]).in :
            m \in NameSet, o \in ObservationSet, k \in 0..MaxInsVersions}
    \cup {setSLOs(Insights, slos).in : slos \in SLOSet}
    \cup {initializeSLOsSatisfied(Insights)}
    \cup {assess(Insights, slos).in : slos \in SLOSet}

\* C15: once the insights exist, initInsightsWithNumVersions(n) with
\* another n returns an error and leaves the insights as they were, and no
\* operation of the store changes NumVersions.
C15_NumVersionsImmutable ==
    (pc = "store" /\ Insights # Nil) =>
       /\ \A n \in 0..(MaxInsVersions + 1) :
             n # Insights.NumVersions =>
                LET a == initInsightsWithNumVersions(exp.Result, n)
                IN  a.err /\ a.r = exp.Result
       /\ \A in \in AfterAnyOperation : in.NumVersions = Insights.NumVersions

\* initInsightsWithNumVersions was refused on insights that hold a metric.
C15_Witness ==
    /\ pc = "store"
    /\ ret.op = "initInsightsWithNumVersions"
    /\ ret.err = "error"
    /\ DOMAIN Insights.MetricsInfo # {}

\* ---------------------------------------------------------------- C16

\* C16: updateMetric on a name whose canonical name is registered succeeds
\* only with the registered meta and leaves it registered; with a meta that
\* differs in description, units or type it fails; the first successful
\* call on a name registers the meta it was given; no call changes the
\* meta of another name.
C16_MetaOfFirstCall ==
    (pc = "store" /\ Insights # Nil) =>
       \A m \in NameSet, o \in ObservationSet, k \in 0..MaxInsVersions :
          LET n == NormalizeMetricName(m)
              a == updateMetric(Insights, m, o[1], k, o[2])
              old == Insights.MetricsInfo
              new == a.in.MetricsInfo
          IN  /\ \A x \in DOMAIN old : x \in DOMAIN new /\ new[x] = old[x]
              /\ a.err = "nil" =>
                    /\ ~n.err
                    /\ DOMAIN new = DOMAIN old \cup {n.nm}
                    /\ new[n.nm] = o[1]
              /\ (~n.err /\ n.nm \in DOMAIN old /\ old[n.nm] # o[1]) =>
                    a.err = "error"

\* updateMetric was refused for a meta that differs from the registered
\* one.
C16_Witness ==
    /\ pc = "store"
    /\ ret.op = "updateMetric"
    /\ ret.err = "error"
    /\ ret.why = "meta"

\* ---------------------------------------------------------------- C17

\* The shape of value a metric type takes.
ShapeOf(t) ==
    CASE t \in {"counter", "gauge"} -> "float64"
      [] t = "sample" -> "[]float64"
      [] t = "histogram" -> "[]HistBucket"

\* C17: updateMetric fails when the version index is not below
\* NumVersions, when the value has not the shape of the meta's type, when
\* the meta differs from the registered one and when the percentile of the
\* name does not parse; a call that fails leaves the insights as they
\* were.
C17_FailedUpdateChangesNothing ==
    (pc = "store" /\ Insights # Nil) =>
       \A m \in NameSet, o \in ObservationSet, k \in 0..MaxInsVersions :
          LET n == NormalizeMetricName(m)
              a == updateMetric(Insights, m, o[1], k, o[2])
              conflict == /\ n.nm \in DOMAIN Insights.MetricsInfo
                          /\ Insights.MetricsInfo[n.nm] # o[1]
          IN  /\ (\/ k >= Insights.NumVersions
                  \/ o[2].kind # ShapeOf(o[1].Type)
                  \/ n.err
                  \/ conflict) <=> a.err = "error"
              /\ a.err = "error" => a.in = Insights

\* updateMetric was refused for a version index that is too large, on
\* insights that hold a metric.
C17_Witness ==
    /\ pc = "store"
    /\ ret.op = "updateMetric"
    /\ ret.err = "error"
    /\ ret.why = "version"
    /\ DOMAIN Insights.MetricsInfo # {}

\* ---------------------------------------------------------------- C18

\* C18: setSLOs stores the limits when none are stored; with limits equal
\* to the stored ones it succeeds and changes nothing; with other limits
\* it returns an error and changes nothing. An assess with the stored
\* limits succeeds, one with other limits fails.
C18_SetSLOsIdempotent ==
    (pc = "store" /\ Insights # Nil) =>
       \A slos \in SLOSet :
          LET a == setSLOs(Insights, slos) IN
          /\ Insights.SLOs = Nil =>
                ~a.err /\ a.in = [Insights EXCEPT !.SLOs = slos]
          /\ Insights.SLOs # Nil =>
                /\ a.in = Insights
                /\ a.err <=> slos # Insights.SLOs
                /\ assess(Insights, slos).err = "nil" <=> slos = Insights.SLOs
                /\ setSLOs(a.in, Insights.SLOs) = [in |-> Insights, err |-> FALSE]

\* setSLOs was refused for limits that differ from the stored ones.
C18_Witness ==
    /\ pc = "store"
    /\ ret.op = "setSLOs"
    /\ ret.err = "error"
    /\ Insights.SLOs # Nil

\* ------------------------------------------------- parsing a task list

\* The largest number of entries of a spec.
MaxEntries == 3

\* ReadinessTaskName, CustomMetricsTaskName, CollectHTTPTaskName,
\* CollectGRPCTaskName, AssessTaskName
KnownTasks == {"ready", "custom-metrics", "http", "grpc", "assess"}

\* taskMetaWith{Task, Run, With}: Task and Run are pointers to strings;
\* With is kept as whether it unmarshals into the inputs of the task.
TaskMetaWith(task, run, with) == [Task |-> task, Run |-> run, With |-> with]

\* Entries of a task list: every known task, tasks whose with does not
\* unmarshal, run entries with and without a task, an unknown task, an
\* empty task name, and an entry with neither task nor run.
EntrySet ==
    {TaskMetaWith(Some(t), Nil, "ok") : t \in KnownTasks}
    \cup {TaskMetaWith(Some(t), Nil, "malformed") : t \in {"ready", "http", "assess"}}
    \cup {TaskMetaWith(Nil, Some("echo"), "ok"),
          TaskMetaWith(Some("bogus"), Some("echo"), "ok"),
          TaskMetaWith(Some("http"), Some("echo"), "ok"),
          TaskMetaWith(Some(""), Some("echo"), "ok"),
          TaskMetaWith(Some("bogus"), Nil, "ok"),
          TaskMetaWith(Some(""), Nil, "ok"),
          TaskMetaWith(Nil, Nil, "ok")}

\* The lists of at most n entries.
EntryLists(n) == UNION {[1..k -> EntrySet] : k \in 0..n}

\* The task built from an entry: its Go type and the TaskMeta it carries.
ParsedTask(type, t) == [type |-> type, Task |-> t.Task, Run |-> t.Run]

\* The body of the loop of UnmarshalJSON for one entry: the task built, or
\* the error returned.
parseEntry(t) ==
    IF (t.Task = Nil \/ t.Task.v = "") /\ t.Run = Nil
    THEN [err |-> "error", why |-> "invalid", tsk |-> Nil]
    ELSE IF t.Run # Nil
    THEN [err |-> "nil", why |-> "none", tsk |-> ParsedTask("runTask", t)]
    ELSE CASE t.Task.v = "ready" ->
                [err |-> "nil", why |-> "none",
                 tsk |-> ParsedTask("readinessTask", t)]
           [] t.Task.v \in {"custom-metrics", "http", "grpc", "assess"} ->
                IF t.With = "malformed"
                THEN [err |-> "error", why |-> "unmarshal", tsk |-> Nil]
                ELSE [err |-> "nil", why |-> "none",
                      tsk |-> ParsedTask(t.Task.v, t)]
           [] OTHER -> [err |-> "error", why |-> "unknown", tsk |-> Nil]

\* ExperimentSpec.UnmarshalJSON on the entries v: every task is appended
\* to *s as soon as it is built.
RECURSIVE UnmarshalJSON(_, _)
UnmarshalJSON(s, v) ==
    IF v = <<>> THEN [s |-> s, err |-> "nil", why |-> "none"]
    ELSE LET r == parseEntry(Head(v)) IN
         IF r.err # "nil" THEN [s |-> s, err |-> r.err, why |-> r.why]
         ELSE UnmarshalJSON(Append(s, r.tsk), Tail(v))

\* An experiment with an empty spec.
InitParse ==
    /\ driver = [exp |-> Nil, revision |-> 0]
    /\ exp = [Spec |-> <<>>, Result |-> Nil]
    /\ pc = "parse"
    /\ i = 0
    /\ ret = Outcome("none", "nil", "none", Nil)
    /\ log = <<>>

\* json.Unmarshal of data into the spec: data that is no list of entries
\* is refused before the loop.
Unmarshal(wellFormed, v) ==
    /\ pc = "parse"
    /\ Len(exp.Spec) + Len(v) <= MaxEntries
    /\ LET a == IF wellFormed THEN UnmarshalJSON(exp.Spec, v)
                ELSE [s |-> exp.Spec, err |-> "error", why |-> "json"] IN
       /\ exp' = [exp EXCEPT !.Spec = a.s]
       /\ ret' = Outcome("UnmarshalJSON", a.err, a.why, Nil)
    /\ UNCHANGED <<driver, pc, i, log>>

\* The only step of the parser is a call of UnmarshalJSON.
NextParse ==
    \E wellFormed \in BOOLEAN, v \in EntryLists(MaxEntries) :
       Unmarshal(wellFormed, v)

SpecParse == InitParse /\ [][NextParse]_vars

\* ----------------------------------------------------------- C19, C20

\* C19: no entry whose task is given and is not a known task, and no
\* entry that has neither task nor run, gets into the spec, whether or not
\* the entry carries a run string: the list that holds it is refused.
C19_UnknownTaskRejected ==
    pc = "parse" =>
       \A p \in DOMAIN exp.Spec :
          /\ exp.Spec[p].Task # Nil => exp.Spec[p].Task.v \in KnownTasks
          /\ ~(exp.Spec[p].Task = Nil /\ exp.Spec[p].Run = Nil)

\* C20: a call of UnmarshalJSON that returns an error leaves the spec as
\* it was before the call.
C20_ParseErrorNoMutation ==
    [][(pc = "parse" /\ ret'.op = "UnmarshalJSON" /\ ret'.err = "error") =>
          exp'.Spec = exp.Spec]_vars

\* ---------------------------------------------------------------- C21

\* Spellings of percents after the built-in http prefix.
PercentSpellings ==
    {<<"9", "5">>, <<"9", "5", ".", "0", "0">>, <<"0", "9", "5">>,
     <<"9", "5", ".">>, <<"9", "7", ".", "5">>, <<"9", "7", ".", "5", "0">>}

\* The observations of a counter or a gauge.
ScalarObservations == {o \in ObservationSet : o[2].kind = "float64"}

\* The keys of both value stores.
StoreKeys(in) ==
    UNION {DOMAIN in.NonHistMetricValues.v[j] : j \in 1..SliceLen(in.NonHistMetricValues)}
    \cup UNION {DOMAIN in.HistMetricValues.v[j] : j \in 1..SliceLen(in.HistMetricValues)}

\* C21: after updateMetric("http/latency-pX", gauge or counter, k, v)
\* succeeds, ScalarMetricValue(k, "http/latency-pY") returns v for every Y
\* that denotes the number X denotes, and the stores and metricsInfo hold
\* the value under the canonical name only.
C21_PercentileSpellings ==
    (pc = "store" /\ Insights # Nil) =>
       /\ \A x \in PercentSpellings, o \in ScalarObservations,
             k \in 0..MaxInsVersions :
             LET a == updateMetric(Insights, preHTTP \o x, o[1], k, o[2])
                 canon == preHTTP \o FormatFloat(ParseFloat(x).v)
             IN  a.err = "nil" =>
                    /\ \A y \in PercentSpellings :
                          ParseFloat(y).v = ParseFloat(x).v =>
                             ScalarMetricValue(a.in, k, preHTTP \o y)
                                = Some(o[2].f)
                    /\ canon \in DOMAIN a.in.MetricsInfo
                    /\ canon \in DOMAIN a.in.NonHistMetricValues.v[k + 1]
                    /\ StoreKeys(a.in) \cup DOMAIN a.in.MetricsInfo
                          \subseteq StoreKeys(Insights)
                                    \cup DOMAIN Insights.MetricsInfo
                                    \cup {canon}
       /\ \A key \in StoreKeys(Insights) \cup DOMAIN Insights.MetricsInfo :
             NormalizeMetricName(key) = [nm |-> key, err |-> FALSE]

\* A value written under "http/latency-p95.00" is stored under
\* "http/latency-p95" and read back under both spellings.
C21_Witness ==
    /\ pc = "store"
    /\ ret.op = "updateMetric"
    /\ ret.err = "nil"
    /\ ret.out = [m |-> httpP95_00]
    /\ DOMAIN Insights.MetricsInfo = {httpP95}
    /\ ScalarMetricValue(Insights, 0, httpP95) # Nil
    /\ ScalarMetricValue(Insights, 0, httpP95)
          = ScalarMetricValue(Insights, 0, httpP95_00)

\* ---------------------------------------------------------------- C22

\* Both value stores are allocated with one slot per version.
StoresSized(in) ==
    /\ in.NonHistMetricValues # Nil
    /\ in.HistMetricValues # Nil
    /\ SliceLen(in.NonHistMetricValues) = in.NumVersions
    /\ SliceLen(in.HistMetricValues) = in.NumVersions

\* C22: once insights are initialized, len(NonHistMetricValues) =
\* len(HistMetricValues) = NumVersions in every state reached through
\* initInsightsWithNumVersions (which calls initMetrics) and updateMetric,
\* and each further call of these keeps it so.
C22_StoreLengths ==
    pc = "store" =>
       /\ Insights # Nil => StoresSized(Insights)
       /\ \A n \in 0..MaxInsVersions :
             LET a == initInsightsWithNumVersions(exp.Result, n)
             IN  StoresSized(a.r.Insights)
                    \/ (a.err /\ a.r.Insights = Insights /\ Insights # Nil)
       /\ Insights # Nil =>
             \A m \in NameSet, o \in ObservationSet, k \in 0..MaxInsVersions :
                StoresSized(updateMetric(Insights, m, o[1], k, o[2]).in)

\* Insights for one version hold an observation, and both stores have one
\* slot.
C22_Witness ==
    /\ pc = "store"
    /\ Insights # Nil
    /\ Insights.NumVersions = 1
    /\ ret.op = "updateMetric"
    /\ ret.err = "nil"
    /\ SliceLen(Insights.NonHistMetricValues) = 1
    /\ SliceLen(Insights.HistMetricValues) = 1
    /\ StoreKeys(Insights) # {}

\* ---------------------------------------------------------------- C23

NonHistKeys(in) ==
    UNION {DOMAIN in.NonHistMetricValues.v[j] :
              j \in 1..SliceLen(in.NonHistMetricValues)}

HistKeys(in) ==
    UNION {DOMAIN in.HistMetricValues.v[j] :
              j \in 1..SliceLen(in.HistMetricValues)}

\* Every registered name is a key of the store of its type and of no
\* other, and every key of a store is registered.
StoresMatchInfo(in) ==
    /\ \A m \in DOMAIN in.MetricsInfo :
          IF in.MetricsInfo[m].Type = "histogram"
          THEN m \in HistKeys(in) /\ m \notin NonHistKeys(in)
          ELSE /\ in.MetricsInfo[m].Type \in {"counter", "gauge", "sample"}
               /\ m \in NonHistKeys(in)
               /\ m \notin HistKeys(in)
    /\ NonHistKeys(in) \cup HistKeys(in) \subseteq DOMAIN in.MetricsInfo

\* C24: in every state reached through successful updateMetric calls, each
\* name of MetricsInfo is a key of exactly one value store, the one of its
\* registered type (counter, gauge and sample in NonHistMetricValues,
\* histogram in HistMetricValues), and no store has an unregistered key;
\* a further successful updateMetric keeps it so.
C24_OneStorePerName ==
    (pc = "store" /\ Insights # Nil) =>
       /\ StoresMatchInfo(Insights)
       /\ \A m \in NameSet, o \in ObservationSet, k \in 0..MaxInsVersions :
             LET a == updateMetric(Insights, m, o[1], k, o[2])
             IN  a.err = "nil" => StoresMatchInfo(a.in)

\* A sample is registered and kept in the non-histogram store only.
C24_Witness ==
    /\ pc = "store"
    /\ ret.op = "updateMetric"
    /\ ret.err = "nil"
    /\ \E m \in DOMAIN Insights.MetricsInfo :
          /\ Insights.MetricsInfo[m].Type = "sample"
          /\ m \in NonHistKeys(Insights)
          /\ m \notin HistKeys(Insights)

\* ---------------------------------------------------------------- C25

\* The number of upper and of lower limits; none when SLOs is nil.
NumLimits(in, side) ==
    IF in.SLOs = Nil THEN 0
    ELSE IF side = "Upper" THEN Len(in.SLOs.Upper) ELSE Len(in.SLOs.Lower)

\* C25: whenever SLOsSatisfied is allocated, it has one upper row per upper
\* limit and one lower row per lower limit, each of length NumVersions, in
\* every state reached through setSLOs and initializeSLOsSatisfied calls
\* in any order.
C25_SatisfiedDimensions ==
    (pc = "store" /\ Insights # Nil /\ Insights.SLOsSatisfied # Nil) =>
       /\ Len(Insights.SLOsSatisfied.Upper) = NumLimits(Insights, "Upper")
       /\ Len(Insights.SLOsSatisfied.Lower) = NumLimits(Insights, "Lower")
       /\ \A j \in DOMAIN Insights.SLOsSatisfied.Upper :
             Len(Insights.SLOsSatisfied.Upper[j]) = Insights.NumVersions
       /\ \A j \in DOMAIN Insights.SLOsSatisfied.Lower :
             Len(Insights.SLOsSatisfied.Lower[j]) = Insights.NumVersions

\* ---------------------------------------------------------------- C26

\* The observations of the canonical name nm for the version of index k;
\* none when the version has no slot.
ObservationsOf(in, k, nm) ==
    IF k < SliceLen(in.NonHistMetricValues)
    THEN MapGet(in.NonHistMetricValues.v[k + 1], nm)
    ELSE <<>>

\* What the claim gives for ScalarMetricValue(k, m) on names that do not
\* have 3 segments: the last observation of a 2-segment counter or gauge,
\* absent in every other case.
LastOrAbsent(in, k, m) ==
    LET n == NormalizeMetricName(m) IN
    IF Len(Split(m)) # 2 \/ n.err THEN Nil
    ELSE IF n.nm \notin DOMAIN in.MetricsInfo THEN Nil
    ELSE IF in.MetricsInfo[n.nm].Type \notin {"counter", "gauge"} THEN Nil
    ELSE IF ObservationsOf(in, k, n.nm) = <<>> THEN Nil
    ELSE Some(ObservationsOf(in, k, n.nm)[Len(ObservationsOf(in, k, n.nm))])

\* C26: for a 2-segment name registered as counter or gauge,
\* ScalarMetricValue(k, m) is the value of the most recent successful
\* updateMetric on that name and version; it is absent when the name is
\* not registered, is a sample or a histogram, has no observation for the
\* version, or has a number of segments other than 2 or 3.
C26_LastObservation ==
    (pc = "store" /\ Insights # Nil) =>
       /\ \A q \in QuerySet, k \in 0..MaxInsVersions :
             Len(Split(q)) # 3 =>
                ScalarMetricValue(Insights, k, q) = LastOrAbsent(Insights, k, q)
       /\ \A m \in NameSet, o \in ObservationSet, k \in 0..MaxInsVersions :
             LET a == updateMetric(Insights, m, o[1], k, o[2])
             IN  (a.err = "nil" /\ Len(Split(m)) = 2) =>
                    /\ o[2].kind = "float64" =>
                          ScalarMetricValue(a.in, k, m) = Some(o[2].f)
                    /\ o[2].kind # "float64" =>
                          ScalarMetricValue(a.in, k, m) = Nil

\* ScalarMetricValue has returned the one observation of a 2-segment
\* gauge.
C26_Witness ==
    /\ pc = "store"
    /\ ret.op = "ScalarMetricValue"
    /\ ret.out = Some(500)
    /\ grpcLatency \in DOMAIN Insights.MetricsInfo
    /\ Insights.MetricsInfo[grpcLatency].Type = "gauge"
    /\ ObservationsOf(Insights, 0, grpcLatency) = <<500>>
    /\ ScalarMetricValue(Insights, 0, fourSegments) = Nil
    /\ ScalarMetricValue(Insights, 0, oneSegment) = Nil

\* ---------------------------------------------------------------- C27

IsPrefix(s, t) == Len(s) <= Len(t) /\ SubSeq(t, 1, Len(s)) = s

\* The observation sequence of key in slot j of a value store.
SeqOf(store, j, key) ==
    IF j <= SliceLen(store) THEN MapGet(store.v[j], key) ELSE <<>>

\* The observations a value carries, in the order updateMetric appends them.
ValuesOf(val) ==
    CASE val.kind = "float64" -> <<val.f>>
      [] val.kind = "[]float64" -> val.fs
      [] val.kind = "[]HistBucket" -> val.bs

\* Every observation sequence of old is a prefix of the one new has for
\* the same store, version and name.
OnlyAppended(old, new) ==
    /\ \A j \in 1..SliceLen(old.NonHistMetricValues),
          key \in NonHistKeys(old) :
          IsPrefix(SeqOf(old.NonHistMetricValues, j, key),
                   SeqOf(new.NonHistMetricValues, j, key))
    /\ \A j \in 1..SliceLen(old.HistMetricValues), key \in HistKeys(old) :
          IsPrefix(SeqOf(old.HistMetricValues, j, key),
                   SeqOf(new.HistMetricValues, j, key))

\* C27: a successful updateMetric on the canonical name nm and the version
\* k makes the sequence of (k, nm) the old one followed by the new values
\* in their order and leaves every other (version, name) sequence as it
\* was; no call of updateMetric or initInsightsWithNumVersions removes or
\* reorders an observation.
C27_AppendOnly ==
    (pc = "store" /\ Insights # Nil) =>
       /\ \A m \in NameSet, o \in ObservationSet, k \in 0..MaxInsVersions :
             LET a == updateMetric(Insights, m, o[1], k, o[2])
                 nm == NormalizeMetricName(m).nm
                 hist == o[1].Type = "histogram"
             IN  /\ OnlyAppended(Insights, a.in)
                 /\ a.err = "nil" =>
                       /\ SeqOf(IF hist THEN a.in.HistMetricValues
                                        ELSE a.in.NonHistMetricValues,
                                k + 1, nm)
                             = SeqOf(IF hist THEN Insights.HistMetricValues
                                             ELSE Insights.NonHistMetricValues,
                                     k + 1, nm) \o ValuesOf(o[2])
                       /\ \A j \in 1..Insights.NumVersions,
                             key \in StoreKeys(a.in) :
                             /\ (hist \/ j # k + 1 \/ key # nm) =>
                                   SeqOf(a.in.NonHistMetricValues, j, key)
                                      = SeqOf(Insights.NonHistMetricValues, j, key)
                             /\ (~hist \/ j # k + 1 \/ key # nm) =>
                                   SeqOf(a.in.HistMetricValues, j, key)
                                      = SeqOf(Insights.HistMetricValues, j, key)
       /\ \A n \in 0..MaxInsVersions :
             LET a == initInsightsWithNumVersions(exp.Result, n)
             IN  OnlyAppended(Insights, a.r.Insights)

\* A successful updateMetric has appended a sample of two observations in
\* the order it was given.
C27_Witness ==
    /\ pc = "store"
    /\ ret.op = "updateMetric"
    /\ ret.err = "nil"
    /\ i = 1
    /\ grpcLatency \in DOMAIN Insights.MetricsInfo
    /\ SeqOf(Insights.NonHistMetricValues, 1, grpcLatency) = <<500, 1500>>
    /\ SeqOf(updateMetric(Insights, grpcLatency, sampleMeta, 0,
                          Float64s(<<500>>)).in.NonHistMetricValues,
             1, grpcLatency) = <<500, 1500, 500>>

\* ------------------------------------------------- name normalization

\* The longest remainder after the prefix and the number of times a name
\* is normalized in a row.
MaxRemainder == 3
MaxNormalize == 2

\* The tokens of a remainder: digits, the decimal point, and a token that
\* is in no number.
RemainderTokens == {"9", "5", "0", ".", "x"}

\* The token sequences of length n.
RemainderSeqs(n) == [1..n -> RemainderTokens]

\* The remainders: every token sequence up to MaxRemainder with at most two
\* tokens after its first decimal point.
RemainderSet ==
    {t \in UNION {RemainderSeqs(n) : n \in 0..MaxRemainder} :
        \A k \in 1..Len(t) : t[k] = "." => Len(t) - k <= 2}

\* A prefix that is not a built-in percentile prefix.
preOther == <<"http", "/", "latency-">>

\* The names handed to NormalizeMetricName.
NormalizeNames ==
    {pre \o t : pre \in {preHTTP, preGRPC, preOther}, t \in RemainderSet}

\* The name to normalize is exp; log lists the names given so far.
InitNormalize ==
    /\ driver = [exp |-> Nil, revision |-> 0]
    /\ exp \in NormalizeNames
    /\ pc = "normalize"
    /\ i = 0
    /\ ret = Outcome("none", "nil", "none", Nil)
    /\ log = <<>>

\* A call of NormalizeMetricName on the name; the name it returns is the
\* one the next call is given.
Normalize ==
    /\ pc = "normalize"
    /\ i < MaxNormalize
    /\ LET n == NormalizeMetricName(exp) IN
       /\ exp' = n.nm
       /\ ret' = Outcome("NormalizeMetricName",
                         IF n.err THEN "error" ELSE "nil", "none", Nil)
    /\ i' = i + 1
    /\ log' = Append(log, exp)
    /\ UNCHANGED <<driver, pc>>

NextNormalize == Normalize

SpecNormalize == InitNormalize /\ [][NextNormalize]_vars

\* ---------------------------------------------------------------- C28

\* The name starts with one of the two built-in percentile prefixes.
BuiltInPrefix(m) == HasPrefix(m, preHTTP) \/ HasPrefix(m, preGRPC)

\* The tokens after the built-in prefix are not a decimal number: a token
\* that is no digit and no point, more than one point, or no digit at all.
UnparseableRemainder(m) ==
    LET t == IF HasPrefix(m, preHTTP) THEN TrimPrefix(m, preHTTP)
                                      ELSE TrimPrefix(m, preGRPC)
    IN  \/ \E k \in 1..Len(t) : t[k] \notin Digit \cup {"."}
        \/ Cardinality({k \in 1..Len(t) : t[k] = "."}) > 1
        \/ \A k \in 1..Len(t) : t[k] \notin Digit

\* C28: when NormalizeMetricName succeeds on a name, it succeeds on the
\* name it returned and returns it again; a name without a built-in
\* percentile prefix is returned unchanged, and a name with such a prefix
\* and an unparseable remainder yields an error.
C28_NormalizeIdempotent ==
    pc = "normalize" =>
       LET n == NormalizeMetricName(exp) IN
       /\ ~n.err => NormalizeMetricName(n.nm) = [nm |-> n.nm, err |-> FALSE]
       /\ ~BuiltInPrefix(exp) => n = [nm |-> exp, err |-> FALSE]
       /\ (BuiltInPrefix(exp) /\ UnparseableRemainder(exp)) => n.err
       /\ (i >= 1 /\ ret.err = "nil") => n = [nm |-> exp, err |-> FALSE]

\* "http/latency-p95." was normalized to "http/latency-p95", and
\* normalizing that has returned it unchanged.
C28_Witness ==
    /\ pc = "normalize"
    /\ i = 2
    /\ log = <<preHTTP \o <<"9", "5", ".">>, httpP95>>
    /\ exp = httpP95
    /\ ret.op = "NormalizeMetricName"
    /\ ret.err = "nil"

\* ---------------------------------------------------------------- C29

\* Aggregator tokens: the four named ones, count, percentiles inside and
\* outside (0, 100], and tokens that name no aggregator.
AggregatorSet ==
    {<<"mean">>, <<"stddev">>, <<"min">>, <<"max">>, <<"count">>,
     <<"p", "9", "5">>, <<"p", "5", "0", ".", "0">>, <<"p", "0">>,
     <<"p", "1", "0", "1">>, <<"p", "x">>, <<"p">>, <<"x">>}

\* The 2-segment names registered as samples.
SampleNames(in) ==
    {m \in DOMAIN in.MetricsInfo :
        in.MetricsInfo[m].Type = "sample" /\ Len(Split(m)) = 2}

\* C29: aggregating a sample that has no observation for the version gives
\* an absent result for every aggregator token (mean, stddev, min, max,
\* count, pX, invalid tokens): never a number and never a panic.
C29_EmptySampleAbsent ==
    (pc = "store" /\ Insights # Nil) =>
       /\ \A b \in SampleNames(Insights), k \in 0..(Insights.NumVersions - 1),
             a \in AggregatorSet :
             ObservationsOf(Insights, k, b) = <<>> =>
                /\ ScalarMetricValue(Insights, k, b \o <<"/">> \o a) = Nil
                /\ getSampleAggregation(Insights, k, b, a) = Nil
       /\ \A m \in NameSet, k \in 0..MaxInsVersions, a \in AggregatorSet :
             LET u == updateMetric(Insights, m, sampleMeta, k, Float64s(<<>>))
                 nm == NormalizeMetricName(m).nm
             IN  (u.err = "nil" /\ ObservationsOf(Insights, k, nm) = <<>>) =>
                    ScalarMetricValue(u.in, k, nm \o <<"/">> \o a) = Nil

\* ScalarMetricValue has returned absent, and "grpc/latency" is a sample
\* without observations whose aggregations are absent.
C29_Witness ==
    /\ pc = "store"
    /\ ret.op = "ScalarMetricValue"
    /\ ret.out = Nil
    /\ Insights.NumVersions = 1
    /\ grpcLatency \in SampleNames(Insights)
    /\ ObservationsOf(Insights, 0, grpcLatency) = <<>>
    /\ ScalarMetricValue(Insights, 0, grpcMean) = Nil

\* ---------------------------------------------------------------- C30

\* C30: over a sample with two or more observations the max aggregator
\* returns the greatest observation.
C30_MaxIsMaximum ==
    (pc = "store" /\ Insights # Nil) =>
       \A b \in SampleNames(Insights), k \in 0..(Insights.NumVersions - 1) :
          Len(ObservationsOf(Insights, k, b)) >= 2 =>
             ScalarMetricValue(Insights, k, b \o <<"/", "max">>)
                = Some(MaxSeq(ObservationsOf(Insights, k, b)))

\* ---------------------------------------------------------------- C31

\* C31: the count aggregator over a sample returns the number of
\* observations of the sample for the version, as a float (kept in
\* hundredths), for every sample size from 1 on.
C31_CountIsLength ==
    (pc = "store" /\ Insights # Nil) =>
       \A b \in SampleNames(Insights), k \in 0..(Insights.NumVersions - 1) :
          Len(ObservationsOf(Insights, k, b)) >= 1 =>
             ScalarMetricValue(Insights, k, b \o <<"/", "count">>)
                = Some(100 * Len(ObservationsOf(Insights, k, b)))

\* ---------------------------------------------------------------- C32

\* The positional aggregators: mean, min, max and percentiles.
PositionalAggregators ==
    {<<"mean">>, <<"min">>, <<"max">>, <<"p", "9", "5">>,
     <<"p", "5", "0", ".", "0">>, <<"p", "0">>, <<"p", "1", "0", "1">>}

\* C32: for a sample with exactly one observation, the aggregation with
\* mean, min, max or pX returns that observation.
C32_SingleObservation ==
    (pc = "store" /\ Insights # Nil) =>
       /\ \A b \in SampleNames(Insights), k \in 0..(Insights.NumVersions - 1),
             a \in PositionalAggregators :
             Len(ObservationsOf(Insights, k, b)) = 1 =>
                ScalarMetricValue(Insights, k, b \o <<"/">> \o a)
                   = Some(ObservationsOf(Insights, k, b)[1])
       /\ \A m \in ReadNameSet, k \in 0..MaxInsVersions,
             a \in PositionalAggregators :
             LET u == updateMetric(Insights, m, sampleMeta, k,
                                   Float64s(<<1500>>))
                 nm == NormalizeMetricName(m).nm
             IN  (u.err = "nil" /\ ObservationsOf(Insights, k, nm) = <<>>) =>
                    ScalarMetricValue(u.in, k, nm \o <<"/">> \o a)
                       = Some(1500)

\* ScalarMetricValue has returned the one observation of the sample
\* "grpc/latency".
C32_Witness ==
    /\ pc = "store"
    /\ ret.op = "ScalarMetricValue"
    /\ ret.out = Some(500)
    /\ grpcLatency \in SampleNames(Insights)
    /\ ObservationsOf(Insights, 0, grpcLatency) = <<500>>
    /\ ScalarMetricValue(Insights, 0, grpcMax) = Some(500)

\* ---------------------------------------------------------------- C33

\* Positions of the log at which a driver.Write succeeded.
GoodWrites(l) == {p \in Pos(l, "write") : l[p].ok}

\* The invocation is inside Experiment.run, past the write that follows
\* incrementNumLoops.
InsideLoop == pc \in {"loop", "exec", "count", "writeTask", "writeFailure"}

\* C33: at every point of an invocation after its first successful write,
\* the artifact the driver stores has the NumLoops of the in-memory result
\* and its NumCompletedTasks, or one less exactly between
\* incrementNumCompletedTasks and the write that follows it; within the
\* invocation NumCompletedTasks never decreases from one written artifact
\* to the next.
C33_CrashConsistency ==
    /\ (InsideLoop /\ GoodWrites(log) # {}) =>
          /\ driver.exp.Result # Nil
          /\ driver.exp.Result.NumLoops = exp.Result.NumLoops
          /\ driver.exp.Result.NumCompletedTasks
                = exp.Result.NumCompletedTasks
                  - (IF pc = "writeTask" THEN 1 ELSE 0)
    /\ \A p \in GoodWrites(log), q \in GoodWrites(log) :
          p < q =>
             /\ log[p].res.NumCompletedTasks <= log[q].res.NumCompletedTasks
             /\ log[p].res.NumLoops = log[q].res.NumLoops
    /\ (pc = "idle" /\ GoodWrites(log) # {}) =>
          /\ driver.exp.Result.NumLoops = exp.Result.NumLoops
          /\ driver.exp.Result.NumCompletedTasks
                \in {exp.Result.NumCompletedTasks,
                     exp.Result.NumCompletedTasks - 1}

\* The second task of the second loop has been counted and not yet
\* written: the artifact is one task behind the in-memory result.
C33_Witness ==
    /\ pc = "writeTask"
    /\ i = 2
    /\ exp.Result.NumLoops = 2
    /\ exp.Result.NumCompletedTasks = 4
    /\ driver.exp.Result.NumLoops = 2
    /\ driver.exp.Result.NumCompletedTasks = 3
    /\ Cardinality(GoodWrites(log)) = 2

\* ---------------------------------------------------------------- C34

\* The invocation has returned nil: no read, write, predicate or task
\* error.
CleanReturn == pc = "idle" /\ ret = "nil"

\* The result the invocation read is the one k >= 1 clean loops leave.
ReadCleanLoops(l, n) ==
    /\ l[1].res # Nil
    /\ l[1].res.NumLoops >= 1
    /\ l[1].res.NumCompletedTasks = n * l[1].res.NumLoops

\* C34: a clean invocation with reuseResult=false leaves NumLoops = 1 and
\* NumCompletedTasks = len(spec); a clean invocation with reuseResult=true
\* adds 1 to the NumLoops and len(spec) to the NumCompletedTasks it read, so
\* k consecutive clean invocations give k and k * len(spec). Every
\* invocation starts at the first task and runs the tasks in order whatever
\* NumCompletedTasks it read, and for a non-empty spec Completed() holds
\* after the first clean loop only.
C34_LoopsAccumulate ==
    CleanReturn =>
       LET n == Len(exp.Spec)
           r == exp.Result
           starts == Starts(log)
       IN  /\ driver.exp = exp
           /\ FreshInvocation(log) =>
                 /\ r.NumLoops = 1
                 /\ r.NumCompletedTasks = n
                 /\ Completed(exp)
           /\ ~FreshInvocation(log) =>
                 /\ log[1].res # Nil
                 /\ r.NumLoops = log[1].res.NumLoops + 1
                 /\ r.NumCompletedTasks = log[1].res.NumCompletedTasks + n
                 /\ ReadCleanLoops(log, n) =>
                       /\ r.NumCompletedTasks = n * r.NumLoops
                       /\ n > 0 => ~Completed(exp)
           /\ {log[p].i : p \in starts} = 1..n
           /\ \A p \in starts, q \in starts : p < q => log[p].i < log[q].i

\* The second of two clean invocations on a spec of two tasks has
\* returned: two loops, four completed tasks, and Completed() is false.
C34_Witness ==
    /\ CleanReturn
    /\ ~FreshInvocation(log)
    /\ Len(exp.Spec) = 2
    /\ log[1].res.NumLoops = 1
    /\ log[1].res.NumCompletedTasks = 2
    /\ exp.Result.NumLoops = 2
    /\ exp.Result.NumCompletedTasks = 4
    /\ ~Completed(exp)
    /\ ~exp.Result.Failure

\* ---------------------------------------------------------------- C35

\* The step evaluates the `if` of task i and the predicate does not
\* compile or its evaluation fails.
PredicateError ==
    /\ pc = "loop"
    /\ Len(log') = Len(log) + 1
    /\ log'[Len(log')].ev = "if"
    /\ ~log'[Len(log')].ok

\* C35: a predicate compile or evaluation error leaves the result
\* untouched: the engine returns the error without setting Failure and
\* without a write, so the in-memory result and the stored artifact keep
\* the Failure flag and NumCompletedTasks the preceding write left, and
\* NoFailure() holds after the step if it held before.
C35_PredicateErrorFrame ==
    [][PredicateError =>
          /\ pc' = "idle"
          /\ ret' \in {"compile", "eval"}
          /\ exp' = exp
          /\ driver' = driver
          /\ driver.exp.Result.Failure = exp.Result.Failure
          /\ driver.exp.Result.NumCompletedTasks = exp.Result.NumCompletedTasks
          /\ NoFailure(exp) = NoFailure(exp')]_vars

\* The predicate of the second task did not compile: the engine has
\* returned with one task completed, no failure, and the artifact of the
\* first task's write.
C35_Witness ==
    /\ pc = "idle"
    /\ ret = "compile"
    /\ i = 2
    /\ log[Len(log)].ev = "if"
    /\ log[Len(log) - 1].ev = "write"
    /\ exp.Result.NumCompletedTasks = 1
    /\ NoFailure(exp)
    /\ driver.exp = exp

\* ---------------------------------------------------------------- C36

\* The invocation reuses a result it read with Failure = true and has
\* entered Experiment.run.
ReusesFailedResult ==
    /\ pc # "run"
    /\ Len(log) >= 1
    /\ log[1].ok
    /\ ~FreshInvocation(log)
    /\ log[1].res # Nil
    /\ log[1].res.Failure

\* C36: the engine does not gate on a latched failure. An invocation with
\* reuseResult=true that read Failure = true increments NumLoops and writes,
\* then starts the tasks of the spec at the first one, and increments
\* NumCompletedTasks for every task that runs without error or is skipped.
C36_NoGateOnFailure ==
    ReusesFailedResult =>
       /\ Len(log) >= 2
       /\ log[2].ev = "loops"
       /\ log[2].res.NumLoops = log[1].res.NumLoops + 1
       /\ IF Len(log) = 2 THEN pc = "writeLoop"
          ELSE /\ log[3].ev = "write"
               /\ log[3].res = log[2].res
               /\ (log[3].ok /\ Len(exp.Spec) >= 1) =>
                     IF Len(log) = 3 THEN pc = "loop" /\ i = 1
                     ELSE /\ log[4].i = 1
                          /\ log[4].ev \in {"start", "if", "skip"}
       /\ \A p \in 1..Len(log) :
             ((log[p].ev = "run" /\ log[p].ok) \/ log[p].ev = "skip") =>
                IF p = Len(log) THEN pc = "count"
                ELSE /\ log[p + 1].ev = "tasks"
                     /\ log[p + 1].i = log[p].i
                     /\ log[p + 1].res.NumCompletedTasks
                           = log[p].res.NumCompletedTasks + 1

\* An invocation that read a failed result has run both tasks of the spec
\* and returned nil: one more loop, two more completed tasks, and the
\* failure still latched.
C36_Witness ==
    /\ pc = "idle"
    /\ ret = "nil"
    /\ ReusesFailedResult
    /\ Len(exp.Spec) = 2
    /\ exp.Result.Failure
    /\ exp.Result.NumLoops = log[1].res.NumLoops + 1
    /\ exp.Result.NumCompletedTasks = log[1].res.NumCompletedTasks + 2
    /\ driver.exp = exp

\* ---------------------------------------------------------------- C37

\* C37: RunExperiment with reuseResult=true on an artifact without a result
\* returns the nil-result error before any state change: no loop is
\* counted, nothing is written to the driver and no task is started. It is
\* the only way the error is returned.
C37_NilResultRejected ==
    /\ ret = "nilresult" =>
          /\ pc = "idle"
          /\ log = <<Ev("read", 0, TRUE, Nil)>>
          /\ exp # Nil
          /\ exp.Result = Nil
          /\ driver.exp = exp
    /\ (Len(log) >= 1 /\ log[1].ok /\ log[1].res = Nil
          /\ ~FreshInvocation(log) /\ pc # "run") =>
          ret = "nilresult"

\* The invocation has returned the nil-result error; the artifact still has
\* no result.
C37_Witness ==
    /\ pc = "idle"
    /\ ret = "nilresult"
    /\ Len(log) = 1
    /\ driver.exp.Result = Nil
    /\ Len(driver.exp.Spec) = 2

\* ---------------------------------------------------------------- C38

\* C38: SLOs() is total on every state reached through
\* initInsightsWithNumVersions, setSLOs and initializeSLOsSatisfied in any
\* order: it returns true or false and never panics, also when the SLOs
\* are set and SLOsSatisfied is not allocated, and when SLOsSatisfied was
\* allocated before the SLOs were set.
C38_SLOsTotal ==
    (pc = "store" /\ ret.op = "SLOs") =>
       /\ ret.err = "nil"
       /\ ret.out.b \in {"true", "false"}

\* ---------------------------------------------------------------- C39

\* C39: in every state reached by initInsightsWithNumVersions(n) and
\* successful updateMetric calls, n = 0 included, a further initMetrics
\* returns no error, does not panic, and leaves MetricsInfo and both value
\* stores as they were.
C39_ReinitNoOp ==
    (pc = "store" /\ Insights # Nil) =>
       initMetrics(Insights) = [in |-> Insights, err |-> "nil"]

====
